---- MODULE Spec2Model ----
(***************************************************************************)
(* The REST front end of the light-wallet server: the HTTP dispatcher, the *)
(* seven request handlers, the error categories they return and the        *)
(* account store they read and write.                                      *)
(***************************************************************************)
EXTENDS Integers, Sequences, FiniteSets, Bags, TLC

VARIABLES
    accounts,   \* accounts_by_address: address -> [status, start_height,
                \* scan_height, outputs, spends] where the address has an account
    requests,   \* pending requests: the bag of the <<kind, address>> of the
                \* records of the requests table
    ctx,        \* the connection's context: [logged_in]
    last,       \* the HTTP exchange in progress: query, response and what the
                \* handler did; NoExchange while the worker is idle
    probe,      \* the last evaluation of a helper function on its own: its
                \* arguments and result; NoProbe when there was none
    reader      \* the read transaction of a handler that runs step by step
                \* beside the writer: its snapshot and what it has read so far;
                \* NoReader when no such handler is running

vars == <<accounts, requests, ctx, last, probe, reader>>

----------------------------------------------------------------------------
(* Bounds of the model *)

\* number of distinct wallet addresses
NAddr == 2
\* capacity of the pending-request queue
MaxPending == 1

Addresses == 1..NAddr

----------------------------------------------------------------------------
(* Error codes.  Every error code belongs to one category; the names are   *)
(* unique across categories so a code is modelled by its name.             *)

LwsErrors ==
    { "kAccountExists", "kBadAddress", "kBadViewKey", "kBadBlockchain",
      "kBadClientTx", "kBadDaemonResponse", "kBlockchainReorg",
      "kCreateQueueMax", "kDaemonTimeout", "kDuplicateRequest",
      "kExceededBlockchainBuffer", "kExceededRestRequestLimit",
      "kExchangeRatesDisabled", "kExchangeRatesFetch", "kExchangeRatesOld",
      "kNoSuchAccount", "kSignalAbortProcess", "kSignalAbortScan",
      "kSignalUnknown", "kSystemClockInvalidRange", "kTxRelayFailed" }

JsonErrors ==
    { "kBufferOverflow", "kExpectedArray", "kExpectedBool", "kExpectedDouble",
      "kExpectedFloat", "kExpectedObject", "kExpectedString",
      "kExpectedUnsigned", "kInvalidHex", "kMissingField", "kOverflow",
      "kUnexpectedField", "kUnderflow" }

\* errors of the key-value store (lmdb category)
LmdbErrors == { "MDB_NOTFOUND", "MDB_READERS_FULL", "MDB_CORRUPTED" }

\* errors of the generic (errno) category
GenericErrors == { "errc_timed_out", "errc_no_lock_available", "errc_io_error" }

NoError == "ok"

\* a condition of the generic category (std::errc)
errc(name) == <<"generic", name>>

\* lws::category::default_error_condition that knows of no signal
lws_default_error_condition_no_signals(value) ==
    CASE value \in {"kBadAddress", "kBadViewKey"} -> errc("bad_address")
      [] value = "kDaemonTimeout" -> errc("timed_out")
      [] value = "kExceededBlockchainBuffer" -> errc("no_buffer_space")
      [] value = "kSystemClockInvalidRange" -> errc("result_out_of_range")
      [] OTHER -> <<"lws", value>>

\* lws::category::default_error_condition
lws_default_error_condition(value) ==
    CASE value \in {"kBadAddress", "kBadViewKey"} -> errc("bad_address")
      [] value = "kDaemonTimeout" -> errc("timed_out")
      [] value = "kExceededBlockchainBuffer" -> errc("no_buffer_space")
      [] value \in {"kSignalAbortProcess", "kSignalAbortScan", "kSignalUnknown"}
            -> errc("interrupted")
      [] value = "kSystemClockInvalidRange" -> errc("result_out_of_range")
      [] OTHER -> <<"lws", value>>

\* json::category::default_error_condition
json_default_error_condition(value) ==
    CASE value = "kBufferOverflow" -> errc("no_buffer_space")
      [] value \in {"kOverflow", "kUnderflow"} -> errc("result_out_of_range")
      [] OTHER -> <<"json", value>>

\* lmdb::category::default_error_condition
lmdb_default_error_condition(value) ==
    CASE value = "MDB_READERS_FULL" -> errc("no_lock_available")
      [] value = "MDB_CORRUPTED" -> errc("state_not_recoverable")
      [] OTHER -> <<"lmdb", value>>

\* the condition an error code is equivalent to
default_error_condition(code) ==
    CASE code \in LwsErrors -> lws_default_error_condition(code)
      [] code \in JsonErrors -> json_default_error_condition(code)
      [] code \in LmdbErrors -> lmdb_default_error_condition(code)
      [] code = "errc_timed_out" -> errc("timed_out")
      [] code = "errc_no_lock_available" -> errc("no_lock_available")
      [] OTHER -> errc("io_error")

\* expect<T>::matches(std::error_condition): false when a value is held
matches(err, cond) == err # NoError /\ default_error_condition(err) = cond

\* expect<T>::equal(std::error_code): false when a value is held
equal(err, code) == err # NoError /\ err = code

----------------------------------------------------------------------------
(* Keys and addresses *)

\* secret keys a client can submit: 0 is not a valid scalar, key a is the view
\* secret of address a, and NAddr + 1 is a valid scalar of no address
SecretKeys == 0..(NAddr + 1)

\* crypto::secret_key_to_public_key: fails on an invalid scalar
secret_key_to_public_key(key) ==
    IF key = 0 THEN [ok |-> FALSE, pub |-> 0]
    ELSE [ok |-> TRUE, pub |-> 100 + key]

\* db::account_address::view_public of address a (its view secret is a)
view_public(address) == 100 + address

\* key_check without the comparison against the address
key_check_no_compare(user, key) ==
    secret_key_to_public_key(key).ok

\* key_check: the submitted key must derive the address's view-public key
key_check(user, key) ==
    LET verify == secret_key_to_public_key(key) IN
    IF ~verify.ok THEN FALSE
    ELSE IF verify.pub # view_public(user) THEN FALSE
    ELSE TRUE

----------------------------------------------------------------------------
(* Account store *)

Statuses == {"kActive", "kInactive", "kHidden"}

\* is_hidden with only kHidden hidden: any other value is visible
is_hidden_listed_only(status) == status = "kHidden"

\* is_hidden with kHidden falling into the visible cases
is_hidden_never(status) == FALSE

\* is_hidden: only kActive and kInactive are visible
is_hidden(status) ==
    CASE status \in {"kActive", "kInactive"} -> FALSE
      [] OTHER -> TRUE

\* the error a failing environment step returns
StepError(step) ==
    CASE step = "start_read" -> "MDB_READERS_FULL"
      [] step \in {"get_account", "get_outputs", "get_spends", "get_last_block",
                   "get_images", "get_request", "commit"} -> "MDB_CORRUPTED"
      [] step = "clone" -> "errc_io_error"
      [] step \in {"send", "receive", "send2", "receive2"} -> "kDaemonTimeout"
      [] OTHER -> "errc_io_error"

\* storage_reader::get_account: <<status, account>> or an error
reader_get_account(accts, address, env) ==
    IF env.fail = "get_account" THEN [err |-> StepError("get_account")]
    ELSE IF address \notin DOMAIN accts THEN [err |-> "kNoSuchAccount"]
    ELSE [err |-> NoError, first |-> accts[address].status, second |-> accts[address]]

\* storage_reader::get_request: the pending request or MDB_NOTFOUND.  The
\* reader sees the requests as they were at its start_read: those the handler
\* is given, or env.snapshot when other workers have committed since
reader_get_request(reqs, kind, address, env) ==
    LET snapshot == IF "snapshot" \in DOMAIN env THEN env.snapshot ELSE reqs IN
    IF env.fail = "get_request" THEN [err |-> StepError("get_request")]
    ELSE IF BagIn(<<kind, address>>, snapshot) THEN [err |-> NoError]
    ELSE [err |-> "MDB_NOTFOUND"]

\* storage::creation_request: queue a CreateAccount request
creation_request(reqs, accts, address, env) ==
    IF BagIn(<<"kCreateAccount", address>>, reqs)
        THEN [err |-> "kDuplicateRequest", requests |-> reqs]
    ELSE IF address \in DOMAIN accts
        THEN [err |-> "kAccountExists", requests |-> reqs]
    ELSE IF BagCardinality(reqs) >= MaxPending
        THEN [err |-> "kCreateQueueMax", requests |-> reqs]
    ELSE IF env.fail = "commit"
        THEN [err |-> StepError("commit"), requests |-> reqs]
    ELSE [err |-> NoError, requests |-> reqs (+) SetToBag({<<"kCreateAccount", address>>})]

\* storage::import_request: queue an ImportScan request
storage_import_request(reqs, accts, address, env) ==
    IF BagIn(<<"kImportScan", address>>, reqs)
        THEN [err |-> "kDuplicateRequest", requests |-> reqs]
    ELSE IF address \notin DOMAIN accts
        THEN [err |-> "kNoSuchAccount", requests |-> reqs]
    ELSE IF BagCardinality(reqs) >= MaxPending
        THEN [err |-> "kCreateQueueMax", requests |-> reqs]
    ELSE IF env.fail = "commit"
        THEN [err |-> StepError("commit"), requests |-> reqs]
    ELSE [err |-> NoError, requests |-> reqs (+) SetToBag({<<"kImportScan", address>>})]

----------------------------------------------------------------------------
(* Outputs, spends and the walks over them *)

\* amount totals are accumulated in std::uint64_t; WordModulus stands for 2^64
WordModulus == 16

\* addition that stops at the greatest std::uint64_t instead of wrapping
add64_saturating(a, b) == IF a + b >= WordModulus THEN WordModulus - 1 ELSE a + b

\* a + b in std::uint64_t
add64(a, b) == (a + b) % WordModulus

CRYPTONOTE_MAX_BLOCK_NUMBER == 500000000

\* db::output_id{high, low}: operator<
id_less(left, right) ==
    left.high < right.high \/ (left.high = right.high /\ left.low < right.low)

\* db::transaction_link{height, tx_hash}: operator<
link_less(left, right) ==
    left.height < right.height
        \/ (left.height = right.height /\ left.tx_hash < right.tx_hash)

link_less_equal(left, right) == ~link_less(right, left)

\* is_locked comparing every unlock_time as a block height
is_locked_height_only(unlock_time, last_id, now) ==
    IF unlock_time > CRYPTONOTE_MAX_BLOCK_NUMBER
    THEN unlock_time > last_id
    ELSE unlock_time > last_id

\* is_locked treating the maximum block number itself as wall-clock seconds
is_locked_limit_is_time(unlock_time, last_id, now) ==
    IF unlock_time >= CRYPTONOTE_MAX_BLOCK_NUMBER
    THEN unlock_time > now
    ELSE unlock_time > last_id

\* is_locked: unlock_time above the maximum block number is wall-clock seconds
is_locked(unlock_time, last_id, now) ==
    IF unlock_time > CRYPTONOTE_MAX_BLOCK_NUMBER
    THEN unlock_time > now
    ELSE unlock_time > last_id

\* find_metadata: std::lower_bound of id in metas (Len(metas) + 1 for end)
find_metadata(metas, id) ==
    IF \E i \in 1..Len(metas) : ~id_less(metas[i].id, id)
    THEN CHOOSE i \in 1..Len(metas) :
            /\ ~id_less(metas[i].id, id)
            /\ \A j \in 1..(i - 1) : id_less(metas[j].id, id)
    ELSE Len(metas) + 1

\* std::vector::insert before position pos
insert(vec, pos, value) ==
    SubSeq(vec, 1, pos - 1) \o <<value>> \o SubSeq(vec, pos, Len(vec))

\* the metadata vector after one more output: push_back when in order,
\* sorted insert otherwise
add_meta(metas, meta) ==
    IF metas = << >> \/ id_less(metas[Len(metas)].id, meta.id)
    THEN Append(metas, meta)
    ELSE insert(metas, find_metadata(metas, meta.id), meta)

\* storage_reader::get_images: the key images recorded for an output
reader_get_images(account, id) ==
    LET spent == SelectSeq(account.spends, LAMBDA spend : spend.source = id) IN
    [i \in 1..Len(spent) |-> spent[i].image]

LogicError == "std::logic_error"

\* what() of the two exceptions the walks throw
NoReceiveForSpend == "throw Serious database error, no receive for spend"

UnexpectedSortOrder == "throw DB has unexpected sort order"

\* a value-initialised db::output
ZeroOutput ==
    [spend_meta |-> [id |-> [high |-> 0, low |-> 0], amount |-> 0, mixin_count |-> 0,
                     index |-> 0, tx_public |-> 0],
     link |-> [height |-> 0, tx_hash |-> 0], unlock_time |-> 0, coinbase |-> FALSE]

----------------------------------------------------------------------------
(* Request handlers.  A handler is a function of the parsed request        *)
(* `root`, the store, the connection's logged_in flag and the outcomes    *)
(* `env` of the environment steps it performs.  It returns the error (or   *)
(* NoError), the response body, the new logged_in flag, the new pending    *)
(* requests and the sequence `ev` of steps it performed.                   *)

NoBody == [kind |-> "none"]

\* Ret with the context's flag cleared whenever the handler returns an error
Ret_rolls_back(err, body, li, reqs, ev) ==
    [err |-> err, body |-> body, logged_in |-> li /\ err = NoError,
     requests |-> reqs, ev |-> ev]

Ret(err, body, li, reqs, ev) ==
    [err |-> err, body |-> body, logged_in |-> li, requests |-> reqs, ev |-> ev]

\* index of the first step of `steps` that fails under env, or 0
FailIndex(env, steps) ==
    IF \E i \in 1..Len(steps) : steps[i] = env.fail
    THEN CHOOSE i \in 1..Len(steps) : steps[i] = env.fail
    ELSE 0

\* get_account: account of the request iff the key matches and it is not hidden
get_account(src, accts, env) ==
    IF src.fmt # NoError
        THEN [err |-> src.fmt, ev |-> <<"parse">>]
    ELSE IF ~key_check(src.address, src.view_key)
        THEN [err |-> "kBadViewKey", ev |-> <<"parse", "key_check">>]
    ELSE LET user == reader_get_account(accts, src.address, env)
             ev == <<"parse", "key_check", "get_account">> IN
        IF user.err # NoError THEN [err |-> user.err, ev |-> ev]
        ELSE IF is_hidden(user.first) THEN [err |-> "kNoSuchAccount", ev |-> ev]
        ELSE [err |-> NoError, ev |-> ev, account |-> user.second]

RECURSIVE info_outputs(_, _, _, _, _)
\* get_address_info: the walk over the outputs from position i
info_outputs(outputs, i, acc, chain_height, now) ==
    IF i > Len(outputs) THEN acc
    ELSE LET meta == outputs[i].spend_meta IN
        info_outputs(outputs, i + 1,
            [metas |-> add_meta(acc.metas, meta),
             received |-> add64(acc.received, meta.amount),
             locked |-> IF is_locked(outputs[i].unlock_time, chain_height, now)
                        THEN add64(acc.locked, meta.amount)
                        ELSE acc.locked],
            chain_height, now)

\* spent_json reporting the source output's mixin instead of the spend's
spent_json_output_mixin(meta, spend) ==
    [amount |-> meta.amount, key_image |-> spend.image, tx_pub_key |-> meta.tx_public,
     out_index |-> meta.index, mixin |-> meta.mixin_count]

\* spent_json: the descriptor of a spend paired with its source's metadata
spent_json(meta, spend) ==
    [amount |-> meta.amount, key_image |-> spend.image, tx_pub_key |-> meta.tx_public,
     out_index |-> meta.index, mixin |-> spend.mixin_count]

RECURSIVE info_spends(_, _, _, _)
\* get_address_info: the walk over the spends from position i; thrown when a
\* spend's source is not among the metadata
info_spends(spends, i, metas, acc) ==
    IF i > Len(spends) THEN acc
    ELSE LET meta == find_metadata(metas, spends[i].source) IN
        IF meta = Len(metas) + 1 \/ metas[meta].id # spends[i].source
        THEN [acc EXCEPT !.thrown = TRUE]
        ELSE info_spends(spends, i + 1, metas,
                [thrown |-> FALSE,
                 spends_full |-> Append(acc.spends_full, spent_json(metas[meta], spends[i])),
                 spent |-> add64(acc.spent, metas[meta].amount)])

\* get_address_info: both walks over the account's records
address_info_walk(user, env) ==
    LET seen == info_outputs(user.outputs, 1,
                    [metas |-> << >>, received |-> 0, locked |-> 0], env.height, env.now)
        sent == info_spends(user.spends, 1, seen.metas,
                    [thrown |-> FALSE, spends_full |-> << >>, spent |-> 0]) IN
    [thrown |-> sent.thrown,
     body |-> [kind |-> "address_info",
               locked_funds |-> seen.locked, total_received |-> seen.received,
               total_sent |-> sent.spent,
               scanned_height |-> user.scan_height, start_height |-> user.start_height,
               blockchain_height |-> env.height,
               spent_outputs |-> sent.spends_full, rates |-> env.rates]]

address_info_reads == <<"get_outputs", "get_spends", "get_last_block">>

\* get_address_info with logged_in set before the account is authenticated
get_address_info_login_first(root, accts, reqs, li, env) ==
    IF env.fail = "start_read"
        THEN Ret(StepError("start_read"), NoBody, li, reqs, <<"start_read">>)
    ELSE LET user == get_account(root, accts, env)
             ev1 == <<"start_read">> \o user.ev
             k == FailIndex(env, address_info_reads) IN
        IF user.err # NoError
            THEN Ret(user.err, NoBody, TRUE, reqs, ev1 \o <<"end_read">>)
        ELSE IF k # 0
            THEN Ret(StepError(address_info_reads[k]), NoBody, TRUE, reqs,
                     ev1 \o SubSeq(address_info_reads, 1, k) \o <<"end_read">>)
        ELSE LET walk == address_info_walk(user.account, env) IN
            IF walk.thrown
                THEN Ret(LogicError, NoBody, TRUE, reqs,
                         ev1 \o address_info_reads \o <<NoReceiveForSpend, "end_read">>)
            ELSE Ret(NoError, walk.body, TRUE, reqs,
                     ev1 \o address_info_reads \o <<"end_read", "get_rates">>)

\* get_address_info fetching the exchange rates before the reader is released
get_address_info_rates_in_snapshot(root, accts, reqs, li, env) ==
    IF env.fail = "start_read"
        THEN Ret(StepError("start_read"), NoBody, li, reqs, <<"start_read">>)
    ELSE LET user == get_account(root, accts, env)
             ev1 == <<"start_read">> \o user.ev
             k == FailIndex(env, address_info_reads) IN
        IF user.err # NoError
            THEN Ret(user.err, NoBody, li, reqs, ev1 \o <<"end_read">>)
        ELSE IF k # 0
            THEN Ret(StepError(address_info_reads[k]), NoBody, TRUE, reqs,
                     ev1 \o SubSeq(address_info_reads, 1, k) \o <<"end_read">>)
        ELSE LET walk == address_info_walk(user.account, env) IN
            IF walk.thrown
                THEN Ret(LogicError, NoBody, TRUE, reqs,
                         ev1 \o address_info_reads \o <<NoReceiveForSpend, "end_read">>)
            ELSE Ret(NoError, walk.body, TRUE, reqs,
                     ev1 \o address_info_reads \o <<"get_rates", "end_read">>)

\* get_address_info returning the error of a failed rate fetch
get_address_info_rates_required(root, accts, reqs, li, env) ==
    IF env.fail = "start_read"
        THEN Ret(StepError("start_read"), NoBody, li, reqs, <<"start_read">>)
    ELSE LET user == get_account(root, accts, env)
             ev1 == <<"start_read">> \o user.ev
             k == FailIndex(env, address_info_reads) IN
        IF user.err # NoError
            THEN Ret(user.err, NoBody, li, reqs, ev1 \o <<"end_read">>)
        ELSE IF k # 0
            THEN Ret(StepError(address_info_reads[k]), NoBody, TRUE, reqs,
                     ev1 \o SubSeq(address_info_reads, 1, k) \o <<"end_read">>)
        ELSE LET walk == address_info_walk(user.account, env) IN
            IF walk.thrown
                THEN Ret(LogicError, NoBody, TRUE, reqs,
                         ev1 \o address_info_reads \o <<NoReceiveForSpend, "end_read">>)
            ELSE IF ~env.rates
                THEN Ret("kExchangeRatesFetch", NoBody, TRUE, reqs,
                         ev1 \o address_info_reads \o <<"end_read", "get_rates">>)
            ELSE Ret(NoError, walk.body, TRUE, reqs,
                     ev1 \o address_info_reads \o <<"end_read", "get_rates">>)

get_address_info(root, accts, reqs, li, env) ==
    IF env.fail = "start_read"
        THEN Ret(StepError("start_read"), NoBody, li, reqs, <<"start_read">>)
    ELSE LET user == get_account(root, accts, env)
             ev1 == <<"start_read">> \o user.ev
             k == FailIndex(env, address_info_reads) IN
        IF user.err # NoError
            THEN Ret(user.err, NoBody, li, reqs, ev1 \o <<"end_read">>)
        ELSE IF k # 0
            THEN Ret(StepError(address_info_reads[k]), NoBody, TRUE, reqs,
                     ev1 \o SubSeq(address_info_reads, 1, k) \o <<"end_read">>)
        ELSE LET walk == address_info_walk(user.account, env) IN
            IF walk.thrown
                THEN Ret(LogicError, NoBody, TRUE, reqs,
                         ev1 \o address_info_reads \o <<NoReceiveForSpend, "end_read">>)
            ELSE Ret(NoError, walk.body, TRUE, reqs,
                     ev1 \o address_info_reads \o <<"end_read", "get_rates">>)

\* txs_take_output starting a new entry for every output
txs_take_output_no_collapse(acc, output) ==
    LET txes == acc.txes
        fresh == TRUE
        grown == IF fresh
                 THEN Append(txes, [info |-> output, spends |-> << >>, spent |-> 0])
                 ELSE [txes EXCEPT ![Len(txes)].info.spend_meta.amount =
                                        add64(@, output.spend_meta.amount)] IN
    [txes |-> grown,
     metas |-> add_meta(acc.metas, grown[Len(grown)].info.spend_meta),
     received |-> add64(acc.received, output.spend_meta.amount)]

\* get_address_txs: the merge step that consumes outputs[o]
txs_take_output(acc, output) ==
    LET txes == acc.txes
        fresh == txes = << >>
                    \/ txes[Len(txes)].info.link.tx_hash # output.link.tx_hash
        grown == IF fresh
                 THEN Append(txes, [info |-> output, spends |-> << >>, spent |-> 0])
                 ELSE [txes EXCEPT ![Len(txes)].info.spend_meta.amount =
                                        add64(@, output.spend_meta.amount)] IN
    [txes |-> grown,
     metas |-> add_meta(acc.metas, grown[Len(grown)].info.spend_meta),
     received |-> add64(acc.received, output.spend_meta.amount)]

\* get_address_txs: the merge step that consumes spends[s], whose source's
\* metadata is meta
txs_take_spend(acc, spend, meta) ==
    LET txes == acc.txes
        fresh == txes = << >>
                    \/ txes[Len(txes)].info.link.tx_hash # spend.link.tx_hash
        started == [info |-> [ZeroOutput EXCEPT !.link = spend.link,
                                                !.spend_meta.mixin_count = spend.mixin_count,
                                                !.unlock_time = spend.unlock_time],
                    spends |-> << >>, spent |-> 0]
        grown == IF fresh THEN Append(txes, started) ELSE txes IN
    [acc EXCEPT !.txes =
        [grown EXCEPT ![Len(grown)].spends = Append(@, spent_json(meta, spend)),
                      ![Len(grown)].spent = add64(@, meta.amount)]]

RECURSIVE txs_walk_unchecked(_, _, _, _, _)
\* txs_walk without the check of the sort order
txs_walk_unchecked(outputs, spends, o, s, acc) ==
    LET output_is_end == o > Len(outputs)
        spend_is_end == s > Len(spends)
        last_link == acc.txes[Len(acc.txes)].info.link IN
    IF output_is_end /\ spend_is_end
        THEN [thrown |-> "", txes |-> acc.txes, received |-> acc.received]
    ELSE IF FALSE
        THEN [thrown |-> UnexpectedSortOrder, txes |-> acc.txes, received |-> acc.received]
    ELSE IF spend_is_end
            \/ (~output_is_end /\ link_less_equal(outputs[o].link, spends[s].link))
        THEN txs_walk_unchecked(outputs, spends, o + 1, s, txs_take_output(acc, outputs[o]))
    ELSE LET meta == find_metadata(acc.metas, spends[s].source) IN
        IF meta = Len(acc.metas) + 1 \/ acc.metas[meta].id # spends[s].source
            THEN [thrown |-> NoReceiveForSpend, txes |-> acc.txes,
                  received |-> acc.received]
        ELSE txs_walk_unchecked(outputs, spends, o, s + 1,
                      txs_take_spend(acc, spends[s], acc.metas[meta]))

RECURSIVE txs_walk(_, _, _, _, _)
\* get_address_txs: the merge loop with the output cursor at o and the spend
\* cursor at s
txs_walk(outputs, spends, o, s, acc) ==
    LET output_is_end == o > Len(outputs)
        spend_is_end == s > Len(spends)
        last_link == acc.txes[Len(acc.txes)].info.link IN
    IF output_is_end /\ spend_is_end
        THEN [thrown |-> "", txes |-> acc.txes, received |-> acc.received]
    ELSE IF acc.txes # << >>
            /\ \/ ~output_is_end /\ link_less(outputs[o].link, last_link)
               \/ ~spend_is_end /\ link_less(spends[s].link, last_link)
        THEN [thrown |-> UnexpectedSortOrder, txes |-> acc.txes, received |-> acc.received]
    ELSE IF spend_is_end
            \/ (~output_is_end /\ link_less_equal(outputs[o].link, spends[s].link))
        THEN txs_walk(outputs, spends, o + 1, s, txs_take_output(acc, outputs[o]))
    ELSE LET meta == find_metadata(acc.metas, spends[s].source) IN
        IF meta = Len(acc.metas) + 1 \/ acc.metas[meta].id # spends[s].source
            THEN [thrown |-> NoReceiveForSpend, txes |-> acc.txes,
                  received |-> acc.received]
        ELSE txs_walk(outputs, spends, o, s + 1,
                      txs_take_spend(acc, spends[s], acc.metas[meta]))

\* transaction_json: the entry emitted for txes[i]
transaction_json(txes, i) ==
    [id |-> i - 1, hash |-> txes[i].info.link.tx_hash,
     total_received |-> txes[i].info.spend_meta.amount, total_sent |-> txes[i].spent,
     unlock_time |-> txes[i].info.unlock_time, height |-> txes[i].info.link.height,
     coinbase |-> txes[i].info.coinbase, mempool |-> FALSE,
     mixin |-> txes[i].info.spend_meta.mixin_count, spent_outputs |-> txes[i].spends]

get_address_txs(root, accts, reqs, li, env) ==
    IF env.fail = "start_read"
        THEN Ret(StepError("start_read"), NoBody, li, reqs, <<"start_read">>)
    ELSE LET user == get_account(root, accts, env)
             ev1 == <<"start_read">> \o user.ev
             k == FailIndex(env, address_info_reads) IN
        IF user.err # NoError
            THEN Ret(user.err, NoBody, li, reqs, ev1 \o <<"end_read">>)
        ELSE IF k # 0
            THEN Ret(StepError(address_info_reads[k]), NoBody, TRUE, reqs,
                     ev1 \o SubSeq(address_info_reads, 1, k) \o <<"end_read">>)
        ELSE LET walk == txs_walk(user.account.outputs, user.account.spends, 1, 1,
                                  [txes |-> << >>, metas |-> << >>, received |-> 0]) IN
            IF walk.thrown # ""
                THEN Ret(LogicError, NoBody, TRUE, reqs,
                         ev1 \o address_info_reads \o <<walk.thrown, "end_read">>)
            ELSE Ret(NoError,
                     [kind |-> "address_txs", total_received |-> walk.received,
                      scanned_height |-> user.account.scan_height,
                      start_height |-> user.account.start_height,
                      blockchain_height |-> env.height,
                      transactions |-> [i \in 1..Len(walk.txes) |->
                                            transaction_json(walk.txes, i)]],
                     TRUE, reqs, ev1 \o address_info_reads \o <<"end_read">>)

\* the value of a boost::optional, modelled as a set of at most one element
value_or(optional, default) ==
    IF optional = {} THEN default ELSE CHOOSE v \in optional : TRUE

\* output_json: the descriptor of an unspent output with its key images
output_json(out, images) ==
    [amount |-> out.spend_meta.amount, index |-> out.spend_meta.index,
     global_index |-> out.spend_meta.id.low, tx_id |-> out.spend_meta.id.low,
     tx_hash |-> out.link.tx_hash, tx_pub_key |-> out.spend_meta.tx_public,
     height |-> out.link.height, spend_key_images |-> images]

RECURSIVE unspent_walk_strict(_, _, _, _, _, _)
\* unspent_walk dropping the outputs whose amount equals the threshold
unspent_walk_strict(account, i, threshold, mixin, env, acc) ==
    IF i > Len(account.outputs) THEN acc
    ELSE LET out == account.outputs[i] IN
        IF out.spend_meta.amount <= threshold \/ out.spend_meta.mixin_count < mixin
            THEN unspent_walk_strict(account, i + 1, threshold, mixin, env, acc)
        ELSE IF env.fail = "get_images"
            THEN [acc EXCEPT !.err = StepError("get_images"),
                             !.ev = Append(@, "get_images")]
        ELSE unspent_walk_strict(account, i + 1, threshold, mixin, env,
                [err |-> NoError,
                 received |-> add64(acc.received, out.spend_meta.amount),
                 unspent |-> Append(acc.unspent,
                                output_json(out, reader_get_images(account, out.spend_meta.id))),
                 ev |-> Append(acc.ev, "get_images")])

RECURSIVE unspent_walk_skips_spent(_, _, _, _, _, _)
\* unspent_walk leaving out the outputs that have a key image recorded
unspent_walk_skips_spent(account, i, threshold, mixin, env, acc) ==
    IF i > Len(account.outputs) THEN acc
    ELSE LET out == account.outputs[i] IN
        IF out.spend_meta.amount < threshold \/ out.spend_meta.mixin_count < mixin
                \/ reader_get_images(account, out.spend_meta.id) # << >>
            THEN unspent_walk_skips_spent(account, i + 1, threshold, mixin, env, acc)
        ELSE IF env.fail = "get_images"
            THEN [acc EXCEPT !.err = StepError("get_images"),
                             !.ev = Append(@, "get_images")]
        ELSE unspent_walk_skips_spent(account, i + 1, threshold, mixin, env,
                [err |-> NoError,
                 received |-> add64(acc.received, out.spend_meta.amount),
                 unspent |-> Append(acc.unspent,
                                output_json(out, reader_get_images(account, out.spend_meta.id))),
                 ev |-> Append(acc.ev, "get_images")])

RECURSIVE unspent_walk(_, _, _, _, _, _)
\* get_unspent_outs: the walk over the outputs from position i
unspent_walk(account, i, threshold, mixin, env, acc) ==
    IF i > Len(account.outputs) THEN acc
    ELSE LET out == account.outputs[i] IN
        IF out.spend_meta.amount < threshold \/ out.spend_meta.mixin_count < mixin
            THEN unspent_walk(account, i + 1, threshold, mixin, env, acc)
        ELSE IF env.fail = "get_images"
            THEN [acc EXCEPT !.err = StepError("get_images"),
                             !.ev = Append(@, "get_images")]
        ELSE unspent_walk(account, i + 1, threshold, mixin, env,
                [err |-> NoError,
                 received |-> add64(acc.received, out.spend_meta.amount),
                 unspent |-> Append(acc.unspent,
                                output_json(out, reader_get_images(account, out.spend_meta.id))),
                 ev |-> Append(acc.ev, "get_images")])

\* get_unspent_outs awaiting the fee response before the reader is released
get_unspent_outs_receive_in_snapshot(root, accts, reqs, li, env) ==
    IF env.fail = "clone"
        THEN Ret(StepError("clone"), NoBody, li, reqs, <<"clone">>)
    ELSE IF env.fail = "send"
        THEN Ret(StepError("send"), NoBody, li, reqs, <<"clone", "send">>)
    ELSE IF root.fmt # NoError
        THEN Ret(root.fmt, NoBody, li, reqs, <<"clone", "send", "parse">>)
    ELSE IF ~key_check(root.address, root.view_key)
        THEN Ret("kBadViewKey", NoBody, li, reqs,
                 <<"clone", "send", "parse", "key_check">>)
    ELSE IF env.fail = "start_read"
        THEN Ret(StepError("start_read"), NoBody, li, reqs,
                 <<"clone", "send", "parse", "key_check", "start_read">>)
    ELSE LET user == reader_get_account(accts, root.address, env)
             ev1 == <<"clone", "send", "parse", "key_check", "start_read", "get_account">>
             threshold == IF TRUE \in root.use_dust \/ root.dust_threshold = {}
                          THEN 0
                          ELSE value_or(root.dust_threshold, 0)
             mixin == value_or(root.mixin, 0) IN
        IF user.err # NoError
            THEN Ret(user.err, NoBody, li, reqs, ev1 \o <<"end_read">>)
        ELSE IF is_hidden(user.first)
            THEN Ret("kNoSuchAccount", NoBody, li, reqs, ev1 \o <<"end_read">>)
        ELSE IF env.fail = "get_outputs"
            THEN Ret(StepError("get_outputs"), NoBody, TRUE, reqs,
                     ev1 \o <<"get_outputs", "end_read">>)
        ELSE LET walk == unspent_walk(user.second, 1, threshold, mixin, env,
                            [err |-> NoError, received |-> 0, unspent |-> << >>,
                             ev |-> ev1 \o <<"get_outputs">>]) IN
            IF walk.err # NoError
                THEN Ret(walk.err, NoBody, TRUE, reqs, walk.ev \o <<"end_read">>)
            ELSE IF walk.received < root.amount
                THEN Ret("kNoSuchAccount", NoBody, TRUE, reqs, walk.ev \o <<"end_read">>)
            ELSE IF env.fail = "receive"
                THEN Ret(StepError("receive"), NoBody, TRUE, reqs,
                         walk.ev \o <<"receive", "end_read">>)
            ELSE Ret(NoError,
                     [kind |-> "unspent_outs", per_kb_fee |-> "estimated_fee_per_kb",
                      amount |-> walk.received, outputs |-> walk.unspent],
                     TRUE, reqs, walk.ev \o <<"receive", "end_read">>)

\* get_unspent_outs sending the fee-estimate request only after the request
\* fields are parsed and the view key is checked
get_unspent_outs_parse_first(root, accts, reqs, li, env) ==
    IF root.fmt # NoError
        THEN Ret(root.fmt, NoBody, li, reqs, <<"parse">>)
    ELSE IF ~key_check(root.address, root.view_key)
        THEN Ret("kBadViewKey", NoBody, li, reqs, <<"parse", "key_check">>)
    ELSE IF env.fail = "clone"
        THEN Ret(StepError("clone"), NoBody, li, reqs, <<"parse", "key_check", "clone">>)
    ELSE IF env.fail = "send"
        THEN Ret(StepError("send"), NoBody, li, reqs,
                 <<"parse", "key_check", "clone", "send">>)
    ELSE IF env.fail = "start_read"
        THEN Ret(StepError("start_read"), NoBody, li, reqs,
                 <<"parse", "key_check", "clone", "send", "start_read">>)
    ELSE LET user == reader_get_account(accts, root.address, env)
             ev1 == <<"parse", "key_check", "clone", "send", "start_read", "get_account">>
             threshold == IF TRUE \in root.use_dust \/ root.dust_threshold = {}
                          THEN 0
                          ELSE value_or(root.dust_threshold, 0)
             mixin == value_or(root.mixin, 0) IN
        IF user.err # NoError
            THEN Ret(user.err, NoBody, li, reqs, ev1 \o <<"end_read">>)
        ELSE IF is_hidden(user.first)
            THEN Ret("kNoSuchAccount", NoBody, li, reqs, ev1 \o <<"end_read">>)
        ELSE IF env.fail = "get_outputs"
            THEN Ret(StepError("get_outputs"), NoBody, TRUE, reqs,
                     ev1 \o <<"get_outputs", "end_read">>)
        ELSE LET walk == unspent_walk(user.second, 1, threshold, mixin, env,
                            [err |-> NoError, received |-> 0, unspent |-> << >>,
                             ev |-> ev1 \o <<"get_outputs">>]) IN
            IF walk.err # NoError
                THEN Ret(walk.err, NoBody, TRUE, reqs, walk.ev \o <<"end_read">>)
            ELSE IF walk.received < root.amount
                THEN Ret("kNoSuchAccount", NoBody, TRUE, reqs, walk.ev \o <<"end_read">>)
            ELSE IF env.fail = "receive"
                THEN Ret(StepError("receive"), NoBody, TRUE, reqs,
                         walk.ev \o <<"end_read", "receive">>)
            ELSE Ret(NoError,
                     [kind |-> "unspent_outs", per_kb_fee |-> "estimated_fee_per_kb",
                      amount |-> walk.received, outputs |-> walk.unspent],
                     TRUE, reqs, walk.ev \o <<"end_read", "receive">>)

get_unspent_outs(root, accts, reqs, li, env) ==
    IF env.fail = "clone"
        THEN Ret(StepError("clone"), NoBody, li, reqs, <<"clone">>)
    ELSE IF env.fail = "send"
        THEN Ret(StepError("send"), NoBody, li, reqs, <<"clone", "send">>)
    ELSE IF root.fmt # NoError
        THEN Ret(root.fmt, NoBody, li, reqs, <<"clone", "send", "parse">>)
    ELSE IF ~key_check(root.address, root.view_key)
        THEN Ret("kBadViewKey", NoBody, li, reqs,
                 <<"clone", "send", "parse", "key_check">>)
    ELSE IF env.fail = "start_read"
        THEN Ret(StepError("start_read"), NoBody, li, reqs,
                 <<"clone", "send", "parse", "key_check", "start_read">>)
    ELSE LET user == reader_get_account(accts, root.address, env)
             ev1 == <<"clone", "send", "parse", "key_check", "start_read", "get_account">>
             threshold == IF TRUE \in root.use_dust \/ root.dust_threshold = {}
                          THEN 0
                          ELSE value_or(root.dust_threshold, 0)
             mixin == value_or(root.mixin, 0) IN
        IF user.err # NoError
            THEN Ret(user.err, NoBody, li, reqs, ev1 \o <<"end_read">>)
        ELSE IF is_hidden(user.first)
            THEN Ret("kNoSuchAccount", NoBody, li, reqs, ev1 \o <<"end_read">>)
        ELSE IF env.fail = "get_outputs"
            THEN Ret(StepError("get_outputs"), NoBody, TRUE, reqs,
                     ev1 \o <<"get_outputs", "end_read">>)
        ELSE LET walk == unspent_walk(user.second, 1, threshold, mixin, env,
                            [err |-> NoError, received |-> 0, unspent |-> << >>,
                             ev |-> ev1 \o <<"get_outputs">>]) IN
            IF walk.err # NoError
                THEN Ret(walk.err, NoBody, TRUE, reqs, walk.ev \o <<"end_read">>)
            ELSE IF walk.received < root.amount
                THEN Ret("kNoSuchAccount", NoBody, TRUE, reqs, walk.ev \o <<"end_read">>)
            ELSE IF env.fail = "receive"
                THEN Ret(StepError("receive"), NoBody, TRUE, reqs,
                         walk.ev \o <<"end_read", "receive">>)
            ELSE Ret(NoError,
                     [kind |-> "unspent_outs", per_kb_fee |-> "estimated_fee_per_kb",
                      amount |-> walk.received, outputs |-> walk.unspent],
                     TRUE, reqs, walk.ev \o <<"end_read", "receive">>)

\* import_request reporting a request that is already pending as new
import_request_pending_is_new(root, accts, reqs, li, env) ==
    IF root.fmt # NoError
        THEN Ret(root.fmt, NoBody, li, reqs, <<"parse">>)
    ELSE IF ~key_check(root.address, root.view_key)
        THEN Ret("kBadViewKey", NoBody, li, reqs, <<"parse", "key_check">>)
    ELSE IF env.fail = "start_read"
        THEN Ret(StepError("start_read"), NoBody, li, reqs,
                 <<"parse", "key_check", "start_read">>)
    ELSE LET account == reader_get_account(accts, root.address, env)
             ev1 == <<"parse", "key_check", "start_read", "get_account">> IN
        IF account.err # NoError \/ is_hidden(account.first)
            THEN Ret("kNoSuchAccount", NoBody, li, reqs, ev1 \o <<"end_read">>)
        ELSE IF account.second.start_height = 0
            THEN Ret(NoError,
                     [kind |-> "import", new_request |-> FALSE,
                      request_fulfilled |-> TRUE, status |-> "Approved"],
                     TRUE, reqs, ev1 \o <<"end_read">>)
        ELSE LET info == reader_get_request(reqs, "kImportScan", root.address, env)
                 ev2 == ev1 \o <<"get_request", "end_read">> IN
            IF info.err = NoError
                THEN Ret(NoError,
                         [kind |-> "import", new_request |-> TRUE,
                          request_fulfilled |-> FALSE, status |-> "Waiting for Approval"],
                         TRUE, reqs, ev2)
            ELSE IF info.err # "MDB_NOTFOUND"
                THEN Ret(info.err, NoBody, TRUE, reqs, ev2)
            ELSE LET w == storage_import_request(reqs, accts, root.address, env) IN
                IF w.err # NoError
                    THEN [sent |-> <<[address |-> root.address, start_height |-> 0]>>]
                         @@ Ret(w.err, NoBody, TRUE, reqs, ev2 \o <<"import_request">>)
                ELSE [sent |-> <<[address |-> root.address, start_height |-> 0]>>]
                     @@ Ret(NoError,
                            [kind |-> "import", new_request |-> TRUE,
                             request_fulfilled |-> FALSE,
                             status |-> "Accepted, waiting for approval"],
                            TRUE, w.requests, ev2 \o <<"import_request">>)

\* import_request taking every failure of get_request for a missing request
import_request_any_error_is_new(root, accts, reqs, li, env) ==
    IF root.fmt # NoError
        THEN Ret(root.fmt, NoBody, li, reqs, <<"parse">>)
    ELSE IF ~key_check(root.address, root.view_key)
        THEN Ret("kBadViewKey", NoBody, li, reqs, <<"parse", "key_check">>)
    ELSE IF env.fail = "start_read"
        THEN Ret(StepError("start_read"), NoBody, li, reqs,
                 <<"parse", "key_check", "start_read">>)
    ELSE LET account == reader_get_account(accts, root.address, env)
             ev1 == <<"parse", "key_check", "start_read", "get_account">> IN
        IF account.err # NoError \/ is_hidden(account.first)
            THEN Ret("kNoSuchAccount", NoBody, li, reqs, ev1 \o <<"end_read">>)
        ELSE IF account.second.start_height = 0
            THEN Ret(NoError,
                     [kind |-> "import", new_request |-> FALSE,
                      request_fulfilled |-> TRUE, status |-> "Approved"],
                     TRUE, reqs, ev1 \o <<"end_read">>)
        ELSE LET info == reader_get_request(reqs, "kImportScan", root.address, env)
                 ev2 == ev1 \o <<"get_request", "end_read">> IN
            IF info.err = NoError
                THEN Ret(NoError,
                         [kind |-> "import", new_request |-> FALSE,
                          request_fulfilled |-> FALSE, status |-> "Waiting for Approval"],
                         TRUE, reqs, ev2)
            ELSE LET w == storage_import_request(reqs, accts, root.address, env) IN
                IF w.err # NoError
                    THEN [sent |-> <<[address |-> root.address, start_height |-> 0]>>]
                         @@ Ret(w.err, NoBody, TRUE, reqs, ev2 \o <<"import_request">>)
                ELSE [sent |-> <<[address |-> root.address, start_height |-> 0]>>]
                     @@ Ret(NoError,
                            [kind |-> "import", new_request |-> TRUE,
                             request_fulfilled |-> FALSE,
                             status |-> "Accepted, waiting for approval"],
                            TRUE, w.requests, ev2 \o <<"import_request">>)

import_request(root, accts, reqs, li, env) ==
    IF root.fmt # NoError
        THEN Ret(root.fmt, NoBody, li, reqs, <<"parse">>)
    ELSE IF ~key_check(root.address, root.view_key)
        THEN Ret("kBadViewKey", NoBody, li, reqs, <<"parse", "key_check">>)
    ELSE IF env.fail = "start_read"
        THEN Ret(StepError("start_read"), NoBody, li, reqs,
                 <<"parse", "key_check", "start_read">>)
    ELSE LET account == reader_get_account(accts, root.address, env)
             ev1 == <<"parse", "key_check", "start_read", "get_account">> IN
        IF account.err # NoError \/ is_hidden(account.first)
            THEN Ret("kNoSuchAccount", NoBody, li, reqs, ev1 \o <<"end_read">>)
        ELSE IF account.second.start_height = 0
            THEN Ret(NoError,
                     [kind |-> "import", new_request |-> FALSE,
                      request_fulfilled |-> TRUE, status |-> "Approved"],
                     TRUE, reqs, ev1 \o <<"end_read">>)
        ELSE LET info == reader_get_request(reqs, "kImportScan", root.address, env)
                 ev2 == ev1 \o <<"get_request", "end_read">> IN
            IF info.err = NoError
                THEN Ret(NoError,
                         [kind |-> "import", new_request |-> FALSE,
                          request_fulfilled |-> FALSE, status |-> "Waiting for Approval"],
                         TRUE, reqs, ev2)
            ELSE IF info.err # "MDB_NOTFOUND"
                THEN Ret(info.err, NoBody, TRUE, reqs, ev2)
            ELSE LET w == storage_import_request(reqs, accts, root.address, env) IN
                IF w.err # NoError
                    THEN [sent |-> <<[address |-> root.address, start_height |-> 0]>>]
                         @@ Ret(w.err, NoBody, TRUE, reqs, ev2 \o <<"import_request">>)
                ELSE [sent |-> <<[address |-> root.address, start_height |-> 0]>>]
                     @@ Ret(NoError,
                            [kind |-> "import", new_request |-> TRUE,
                             request_fulfilled |-> FALSE,
                             status |-> "Accepted, waiting for approval"],
                            TRUE, w.requests, ev2 \o <<"import_request">>)

\* login counting a creation request as a login
login_counts_creation(root, accts, reqs, li, env) ==
    IF root.fmt # NoError
        THEN Ret(root.fmt, NoBody, li, reqs, <<"parse">>)
    ELSE IF ~key_check(root.address, root.view_key)
        THEN Ret("kBadViewKey", NoBody, li, reqs, <<"parse", "key_check">>)
    ELSE IF env.fail = "start_read"
        THEN Ret(StepError("start_read"), NoBody, li, reqs,
                 <<"parse", "key_check", "start_read">>)
    ELSE LET account == reader_get_account(accts, root.address, env)
             ev1 == <<"parse", "key_check", "start_read", "get_account", "end_read">> IN
        IF account.err = NoError
            THEN IF is_hidden(account.first)
                    THEN Ret("kNoSuchAccount", NoBody, li, reqs, ev1)
                 ELSE Ret(NoError, [kind |-> "login", new_address |-> FALSE],
                          TRUE, reqs, ev1)
        ELSE IF ~root.create_account \/ account.err # "kNoSuchAccount"
            THEN Ret(account.err, NoBody, li, reqs, ev1)
        ELSE LET w == creation_request(reqs, accts, root.address, env) IN
            IF w.err # NoError
                THEN Ret(w.err, NoBody, li, reqs, ev1 \o <<"creation_request">>)
            ELSE Ret(NoError, [kind |-> "login", new_address |-> TRUE],
                     TRUE, w.requests, ev1 \o <<"creation_request">>)

\* login queueing a creation request after any failed lookup
login_create_on_any_error(root, accts, reqs, li, env) ==
    IF root.fmt # NoError
        THEN Ret(root.fmt, NoBody, li, reqs, <<"parse">>)
    ELSE IF ~key_check(root.address, root.view_key)
        THEN Ret("kBadViewKey", NoBody, li, reqs, <<"parse", "key_check">>)
    ELSE IF env.fail = "start_read"
        THEN Ret(StepError("start_read"), NoBody, li, reqs,
                 <<"parse", "key_check", "start_read">>)
    ELSE LET account == reader_get_account(accts, root.address, env)
             ev1 == <<"parse", "key_check", "start_read", "get_account", "end_read">> IN
        IF account.err = NoError
            THEN IF is_hidden(account.first)
                    THEN Ret("kNoSuchAccount", NoBody, li, reqs, ev1)
                 ELSE Ret(NoError, [kind |-> "login", new_address |-> FALSE],
                          TRUE, reqs, ev1)
        ELSE IF ~root.create_account
            THEN Ret(account.err, NoBody, li, reqs, ev1)
        ELSE LET w == creation_request(reqs, accts, root.address, env) IN
            IF w.err # NoError
                THEN Ret(w.err, NoBody, li, reqs, ev1 \o <<"creation_request">>)
            ELSE Ret(NoError, [kind |-> "login", new_address |-> TRUE],
                     li, w.requests, ev1 \o <<"creation_request">>)

\* login answering a duplicate creation request as a new one
login_duplicate_is_new(root, accts, reqs, li, env) ==
    IF root.fmt # NoError
        THEN Ret(root.fmt, NoBody, li, reqs, <<"parse">>)
    ELSE IF ~key_check(root.address, root.view_key)
        THEN Ret("kBadViewKey", NoBody, li, reqs, <<"parse", "key_check">>)
    ELSE IF env.fail = "start_read"
        THEN Ret(StepError("start_read"), NoBody, li, reqs,
                 <<"parse", "key_check", "start_read">>)
    ELSE LET account == reader_get_account(accts, root.address, env)
             ev1 == <<"parse", "key_check", "start_read", "get_account", "end_read">> IN
        IF account.err = NoError
            THEN IF is_hidden(account.first)
                    THEN Ret("kNoSuchAccount", NoBody, li, reqs, ev1)
                 ELSE Ret(NoError, [kind |-> "login", new_address |-> FALSE],
                          TRUE, reqs, ev1)
        ELSE IF ~root.create_account \/ account.err # "kNoSuchAccount"
            THEN Ret(account.err, NoBody, li, reqs, ev1)
        ELSE LET w == creation_request(reqs, accts, root.address, env) IN
            IF w.err \notin {NoError, "kDuplicateRequest"}
                THEN Ret(w.err, NoBody, li, reqs, ev1 \o <<"creation_request">>)
            ELSE Ret(NoError, [kind |-> "login", new_address |-> TRUE],
                     li, w.requests, ev1 \o <<"creation_request">>)

login(root, accts, reqs, li, env) ==
    IF root.fmt # NoError
        THEN Ret(root.fmt, NoBody, li, reqs, <<"parse">>)
    ELSE IF ~key_check(root.address, root.view_key)
        THEN Ret("kBadViewKey", NoBody, li, reqs, <<"parse", "key_check">>)
    ELSE IF env.fail = "start_read"
        THEN Ret(StepError("start_read"), NoBody, li, reqs,
                 <<"parse", "key_check", "start_read">>)
    ELSE LET account == reader_get_account(accts, root.address, env)
             ev1 == <<"parse", "key_check", "start_read", "get_account", "end_read">> IN
        IF account.err = NoError
            THEN IF is_hidden(account.first)
                    THEN Ret("kNoSuchAccount", NoBody, li, reqs, ev1)
                 ELSE Ret(NoError, [kind |-> "login", new_address |-> FALSE],
                          TRUE, reqs, ev1)
        ELSE IF ~root.create_account \/ account.err # "kNoSuchAccount"
            THEN Ret(account.err, NoBody, li, reqs, ev1)
        ELSE LET w == creation_request(reqs, accts, root.address, env) IN
            IF w.err # NoError
                THEN Ret(w.err, NoBody, li, reqs, ev1 \o <<"creation_request">>)
            ELSE Ret(NoError, [kind |-> "login", new_address |-> TRUE],
                     li, w.requests, ev1 \o <<"creation_request">>)

\* by_key: memcmp order of the 32-byte public keys
by_key(left, right) == left < right

\* std::sort(keys.begin(), keys.end(), by_key{})
RECURSIVE sort_keys(_)
sort_keys(keys) ==
    IF keys = << >> THEN << >>
    ELSE LET rest == sort_keys(Tail(keys))
             before == SelectSeq(rest, LAMBDA k : by_key(k.key, Head(keys).key))
             after == SelectSeq(rest, LAMBDA k : ~by_key(k.key, Head(keys).key)) IN
         before \o <<Head(keys)>> \o after

\* std::lower_bound(keys.begin(), keys.end(), key, by_key{}): the index of
\* the first entry whose key is not less than key, Len(keys) + 1 for keys.end()
lower_bound_key(keys, key) ==
    IF \E i \in 1..Len(keys) : ~by_key(keys[i].key, key)
    THEN CHOOSE i \in 1..Len(keys) :
            /\ ~by_key(keys[i].key, key)
            /\ \A j \in 1..(i - 1) : by_key(keys[j].key, key)
    ELSE Len(keys) + 1

\* random_output_json accepting whatever entry the search stops at
random_output_json_end_only(keys, src) ==
    LET found == lower_bound_key(keys, src.key) IN
    IF found = Len(keys) + 1
        THEN [err |-> "kBadDaemonResponse"]
    ELSE [err |-> NoError, global_index |-> src.amount_index, public_key |-> src.key,
          rct |-> keys[found].mask]

\* random_output_json: an output of the first response joined with its key
random_output_json(keys, src) ==
    LET found == lower_bound_key(keys, src.key) IN
    IF found = Len(keys) + 1 \/ keys[found].key # src.key
        THEN [err |-> "kBadDaemonResponse"]
    ELSE [err |-> NoError, global_index |-> src.amount_index, public_key |-> src.key,
          rct |-> keys[found].mask]

\* random_outputs_json: an amount of the first response with its outputs
random_outputs_json(keys, src) ==
    [amount |-> src.amount,
     outputs |-> [i \in 1..Len(src.outputs) |-> random_output_json(keys, src.outputs[i])]]

\* keys_req.outputs: the (amount, amount_index) pair of every output of the
\* first response, in order
RECURSIVE keys_request(_)
keys_request(amounts_with_outputs) ==
    IF amounts_with_outputs = << >> THEN << >>
    ELSE LET amount == Head(amounts_with_outputs) IN
         [i \in 1..Len(amount.outputs) |->
            [amount |-> amount.amount, index |-> amount.outputs[i].amount_index]]
         \o keys_request(Tail(amounts_with_outputs))

\* the body of get_random_outs, or the first error of the join
random_outs_body(keys, amounts_with_outputs) ==
    LET amount_outs == [i \in 1..Len(amounts_with_outputs) |->
                            random_outputs_json(keys, amounts_with_outputs[i])] IN
    IF \E i \in 1..Len(amount_outs) : \E j \in 1..Len(amount_outs[i].outputs) :
            amount_outs[i].outputs[j].err # NoError
    THEN [err |-> "kBadDaemonResponse"]
    ELSE [err |-> NoError,
          body |-> [kind |-> "random_outs", amount_outs |-> amount_outs]]

\* get_random_outs from the clone of the oracle client on: the two oracle
\* calls and the join of their responses
random_outs_exchange(reqs, li, env) ==
    IF env.fail = "clone"
        THEN Ret(StepError("clone"), NoBody, li, reqs, <<"parse", "clone">>)
    ELSE LET calls == <<"send", "receive", "send2", "receive2">>
             k == FailIndex(env, calls)
             keys_req == IF k = 0 \/ k > 2 THEN keys_request(env.random) ELSE << >> IN
        IF k # 0
            THEN [sent |-> keys_req]
                 @@ Ret(StepError(calls[k]), NoBody, li, reqs,
                        <<"parse", "clone">> \o SubSeq(calls, 1, k))
        ELSE LET joined == random_outs_body(sort_keys(env.keys), env.random) IN
            IF joined.err # NoError
                THEN [sent |-> keys_req]
                     @@ Ret(joined.err, NoBody, li, reqs, <<"parse", "clone">> \o calls)
            ELSE [sent |-> keys_req]
                 @@ Ret(NoError, joined.body, li, reqs, <<"parse", "clone">> \o calls)

\* get_random_outs rejecting a request at the limits
get_random_outs_limit_exclusive(root, accts, reqs, li, env) ==
    IF ~li
        THEN Ret("kNoSuchAccount", NoBody, li, reqs, << >>)
    ELSE IF root.fmt # NoError
        THEN Ret(root.fmt, NoBody, li, reqs, <<"parse">>)
    ELSE IF 50 <= root.count \/ 10 <= root.amounts
        THEN Ret("kExceededRestRequestLimit", NoBody, li, reqs, <<"parse">>)
    ELSE random_outs_exchange(reqs, li, env)

get_random_outs(root, accts, reqs, li, env) ==
    IF ~li
        THEN Ret("kNoSuchAccount", NoBody, li, reqs, << >>)
    ELSE IF root.fmt # NoError
        THEN Ret(root.fmt, NoBody, li, reqs, <<"parse">>)
    ELSE IF 50 < root.count \/ 10 < root.amounts
        THEN Ret("kExceededRestRequestLimit", NoBody, li, reqs, <<"parse">>)
    ELSE random_outs_exchange(reqs, li, env)

\* submit_raw_tx cloning the oracle client before the logged_in check
submit_raw_tx_clone_first(root, accts, reqs, li, env) ==
    IF env.fail = "clone"
        THEN Ret(StepError("clone"), NoBody, li, reqs, <<"clone">>)
    ELSE IF ~li
        THEN Ret("kNoSuchAccount", NoBody, li, reqs, <<"clone">>)
    ELSE IF root.fmt # NoError
        THEN Ret(root.fmt, NoBody, li, reqs, <<"clone", "parse">>)
    ELSE IF ~root.hex
        THEN Ret("kInvalidHex", NoBody, li, reqs, <<"clone", "parse">>)
    ELSE IF ~root.tx
        THEN Ret("kBadClientTx", NoBody, li, reqs, <<"clone", "parse">>)
    ELSE IF env.fail = "send"
        THEN Ret(StepError("send"), NoBody, li, reqs, <<"clone", "parse", "send">>)
    ELSE IF env.fail = "receive"
        THEN Ret(StepError("receive"), NoBody, li, reqs,
                 <<"clone", "parse", "send", "receive">>)
    ELSE IF ~env.relayed
        THEN Ret("kTxRelayFailed", NoBody, li, reqs,
                 <<"clone", "parse", "send", "receive">>)
    ELSE Ret(NoError, [kind |-> "submit", status |-> "OK"], li, reqs,
             <<"clone", "parse", "send", "receive">>)

\* submit_raw_tx answering OK whatever the oracle reports
submit_raw_tx_ignores_relayed(root, accts, reqs, li, env) ==
    IF ~li
        THEN Ret("kNoSuchAccount", NoBody, li, reqs, << >>)
    ELSE IF env.fail = "clone"
        THEN Ret(StepError("clone"), NoBody, li, reqs, <<"clone">>)
    ELSE IF root.fmt # NoError
        THEN Ret(root.fmt, NoBody, li, reqs, <<"clone", "parse">>)
    ELSE IF ~root.hex
        THEN Ret("kInvalidHex", NoBody, li, reqs, <<"clone", "parse">>)
    ELSE IF ~root.tx
        THEN Ret("kBadClientTx", NoBody, li, reqs, <<"clone", "parse">>)
    ELSE IF env.fail = "send"
        THEN Ret(StepError("send"), NoBody, li, reqs, <<"clone", "parse", "send">>)
    ELSE IF env.fail = "receive"
        THEN Ret(StepError("receive"), NoBody, li, reqs,
                 <<"clone", "parse", "send", "receive">>)
    ELSE Ret(NoError, [kind |-> "submit", status |-> "OK"], li, reqs,
             <<"clone", "parse", "send", "receive">>)

submit_raw_tx(root, accts, reqs, li, env) ==
    IF ~li
        THEN Ret("kNoSuchAccount", NoBody, li, reqs, << >>)
    ELSE IF env.fail = "clone"
        THEN Ret(StepError("clone"), NoBody, li, reqs, <<"clone">>)
    ELSE IF root.fmt # NoError
        THEN Ret(root.fmt, NoBody, li, reqs, <<"clone", "parse">>)
    ELSE IF ~root.hex
        THEN Ret("kInvalidHex", NoBody, li, reqs, <<"clone", "parse">>)
    ELSE IF ~root.tx
        THEN Ret("kBadClientTx", NoBody, li, reqs, <<"clone", "parse">>)
    ELSE IF env.fail = "send"
        THEN Ret(StepError("send"), NoBody, li, reqs, <<"clone", "parse", "send">>)
    ELSE IF env.fail = "receive"
        THEN Ret(StepError("receive"), NoBody, li, reqs,
                 <<"clone", "parse", "send", "receive">>)
    ELSE IF ~env.relayed
        THEN Ret("kTxRelayFailed", NoBody, li, reqs,
                 <<"clone", "parse", "send", "receive">>)
    ELSE Ret(NoError, [kind |-> "submit", status |-> "OK"], li, reqs,
             <<"clone", "parse", "send", "receive">>)

----------------------------------------------------------------------------
(* HTTP dispatch *)

\* the endpoint table, sorted by name; run = "nullptr" is an unimplemented entry
endpoints ==
    << [name |-> "/get_address_info", run |-> "get_address_info", max_size |-> 2 * 1024],
       [name |-> "/get_address_txs",  run |-> "get_address_txs",  max_size |-> 2 * 1024],
       [name |-> "/get_random_outs",  run |-> "get_random_outs",  max_size |-> 2 * 1024],
       [name |-> "/get_txt_records",  run |-> "nullptr",          max_size |-> 0],
       [name |-> "/get_unspent_outs", run |-> "get_unspent_outs", max_size |-> 2 * 1024],
       [name |-> "/import_request",   run |-> "import_request",   max_size |-> 2 * 1024],
       [name |-> "/login",            run |-> "login",            max_size |-> 2 * 1024],
       [name |-> "/submit_raw_tx",    run |-> "submit_raw_tx",    max_size |-> 50 * 1024] >>

\* the URIs a client requests, in byte-wise lexicographic order
UriOrder ==
    << "/", "/get_address_info", "/get_address_txs", "/get_random_outs",
       "/get_txt_records", "/get_unspent_outs", "/import_request", "/login",
       "/login/", "/submit_raw_tx", "/version" >>

Uris == { UriOrder[i] : i \in 1..Len(UriOrder) }

\* position of each URI in the lexicographic order
RankTable == [u \in Uris |-> CHOOSE i \in 1..Len(UriOrder) : UriOrder[i] = u]

Rank(uri) == RankTable[uri]

\* by_name: strcmp(left, right) < 0
by_name(left, right) == Rank(left) < Rank(right)

\* std::lower_bound over the endpoint table: index of the first entry whose
\* name is not less than uri, or Len(endpoints) + 1 for std::end
lower_bound(uri) ==
    IF \E i \in 1..Len(endpoints) : ~by_name(endpoints[i].name, uri)
    THEN CHOOSE i \in 1..Len(endpoints) :
            /\ ~by_name(endpoints[i].name, uri)
            /\ \A j \in 1..(i - 1) : by_name(endpoints[j].name, uri)
    ELSE Len(endpoints) + 1

\* handler->run(doc, disk.clone(), client, ctx)
run(name, root, accts, reqs, li, env) ==
    CASE name = "get_address_info" -> get_address_info(root, accts, reqs, li, env)
      [] name = "get_address_txs"  -> get_address_txs(root, accts, reqs, li, env)
      [] name = "get_random_outs"  -> get_random_outs(root, accts, reqs, li, env)
      [] name = "get_unspent_outs" -> get_unspent_outs(root, accts, reqs, li, env)
      [] name = "import_request"   -> import_request(root, accts, reqs, li, env)
      [] name = "login"            -> login(root, accts, reqs, li, env)
      [] name = "submit_raw_tx"    -> submit_raw_tx(root, accts, reqs, li, env)

\* the body-size check with the limit itself rejected
body_too_large_at_limit(max_size, size) == max_size <= size

\* the body-size check of handle_http_request
body_too_large(max_size, size) == max_size < size

\* the status codes with only timeouts answered 503
error_response_code_timeout_only(err) ==
    IF equal(err, "kNoSuchAccount") THEN 403
    ELSE IF matches(err, errc("timed_out")) THEN 503
    ELSE 500

\* the status code handle_http_request gives a handler error
error_response_code(err) ==
    IF equal(err, "kNoSuchAccount") THEN 403
    ELSE IF matches(err, errc("timed_out")) \/ matches(err, errc("no_lock_available")) THEN 503
    ELSE 500

Response(code, comment, body, ran, r) ==
    [code |-> code, comment |-> comment, body |-> body, ran |-> ran,
     err |-> r.err, logged_in |-> r.logged_in, requests |-> r.requests, ev |-> r.ev,
     \* the payload of the handler's last oracle request or writer call
     sent |-> IF "sent" \in DOMAIN r THEN r.sent ELSE << >>]

\* the response for what the handler returned
respond(body) ==
    \* an exception is not caught here: it leaves handle_http_request
    \* before any response code is assigned (code 0)
    IF body.err = LogicError
        THEN Response(0, "", NoBody, TRUE, body)
    ELSE IF body.err # NoError
        THEN Response(error_response_code(body.err),
                      CASE error_response_code(body.err) = 403 -> "Forbidden"
                        [] error_response_code(body.err) = 503 -> "Service Unavailable"
                        [] OTHER -> "Internal Server Error",
                      NoBody, TRUE, body)
    ELSE Response(200, "OK", body.body, TRUE, body)

\* handle_http_request testing the method before the handler and the size
handle_http_request_method_first(query, accts, reqs, li, env) ==
    LET handler == lower_bound(query.uri)
        idle == Ret(NoError, NoBody, li, reqs, << >>) IN
    IF handler = Len(endpoints) + 1 \/ endpoints[handler].name # query.uri
        THEN Response(404, "Not Found", NoBody, FALSE, idle)
    ELSE IF query.method # "POST"
        THEN Response(405, "Method Not Allowed", NoBody, FALSE, idle)
    ELSE IF endpoints[handler].run = "nullptr"
        THEN Response(501, "Not Implemented", NoBody, FALSE, idle)
    ELSE IF body_too_large(endpoints[handler].max_size, query.body_size)
        THEN Response(400, "Bad Request", NoBody, FALSE, idle)
    ELSE IF ~query.json
        THEN Response(400, "Bad Request", NoBody, FALSE, idle)
    ELSE respond(run(endpoints[handler].run, query.root, accts, reqs, li, env))

\* rest_server::internal::handle_http_request
handle_http_request(query, accts, reqs, li, env) ==
    LET handler == lower_bound(query.uri)
        idle == Ret(NoError, NoBody, li, reqs, << >>) IN
    IF handler = Len(endpoints) + 1 \/ endpoints[handler].name # query.uri
        THEN Response(404, "Not Found", NoBody, FALSE, idle)
    ELSE IF endpoints[handler].run = "nullptr"
        THEN Response(501, "Not Implemented", NoBody, FALSE, idle)
    ELSE IF body_too_large(endpoints[handler].max_size, query.body_size)
        THEN Response(400, "Bad Request", NoBody, FALSE, idle)
    ELSE IF query.method # "POST"
        THEN Response(405, "Method Not Allowed", NoBody, FALSE, idle)
    ELSE IF ~query.json
        THEN Response(400, "Bad Request", NoBody, FALSE, idle)
    ELSE respond(run(endpoints[handler].run, query.root, accts, reqs, li, env))

----------------------------------------------------------------------------
(* Inputs: the requests clients send and the environment outcomes *)

\* what the oracle answers to a random-outputs request unless set by Oracle:
\* two amounts with one output each
SomeOutputs ==
    << [amount |-> 5, outputs |-> << [amount_index |-> 1, key |-> 2] >>],
       [amount |-> 6, outputs |-> << [amount_index |-> 0, key |-> 1] >>] >>

\* the key and mask the oracle holds for a public key
KeyMask(key) == [key |-> key, mask |-> 100 + key]

\* the outcomes of the environment steps of one request; the last block and
\* the clock are at zero unless set by At; the oracle's key response covers
\* the outputs it offered iff join
Env(fail, rates, join, relayed) ==
    [fail |-> fail, rates |-> rates, join |-> join, relayed |-> relayed,
     height |-> 0, now |-> 0, random |-> SomeOutputs,
     keys |-> IF join THEN <<KeyMask(2), KeyMask(1)>> ELSE <<KeyMask(2)>>]

NoFailure == Env("none", TRUE, TRUE, TRUE)

\* the environment outcomes that matter to each handler
Envs(name) ==
    CASE name \in {"get_address_info"} ->
            { Env(f, TRUE, TRUE, TRUE) :
                f \in {"none", "start_read", "get_account", "get_outputs",
                       "get_spends", "get_last_block"} }
            \cup { Env("none", FALSE, TRUE, TRUE) }
      [] name = "get_address_txs" ->
            { Env(f, TRUE, TRUE, TRUE) :
                f \in {"none", "start_read", "get_account", "get_outputs",
                       "get_spends", "get_last_block"} }
      [] name = "get_unspent_outs" ->
            { Env(f, TRUE, TRUE, TRUE) :
                f \in {"none", "clone", "send", "start_read", "get_account",
                       "get_outputs", "receive"} }
      [] name = "import_request" ->
            { Env(f, TRUE, TRUE, TRUE) :
                f \in {"none", "start_read", "get_account", "get_request", "commit"} }
      [] name = "login" ->
            { Env(f, TRUE, TRUE, TRUE) :
                f \in {"none", "start_read", "get_account", "commit"} }
      [] name = "get_random_outs" ->
            { Env(f, TRUE, TRUE, TRUE) :
                f \in {"none", "clone", "send", "receive", "send2", "receive2"} }
            \cup { Env("none", TRUE, FALSE, TRUE) }
      [] name = "submit_raw_tx" ->
            { Env(f, TRUE, TRUE, TRUE) :
                f \in {"none", "clone", "send", "receive"} }
            \cup { Env("none", TRUE, TRUE, FALSE) }
      [] OTHER -> { NoFailure }

\* a request body whose fields do not parse
BadRoot == [fmt |-> "kMissingField"]

\* the parsed request bodies of each handler
Roots(name) ==
    CASE name \in {"get_address_info", "get_address_txs", "import_request"} ->
            {BadRoot} \cup
            { [fmt |-> NoError, address |-> a, view_key |-> k] :
                a \in Addresses, k \in SecretKeys }
      [] name = "login" ->
            {BadRoot} \cup
            { [fmt |-> NoError, address |-> a, view_key |-> k, create_account |-> c] :
                a \in Addresses, k \in SecretKeys, c \in BOOLEAN }
      [] name = "get_unspent_outs" ->
            {BadRoot} \cup
            { [fmt |-> NoError, address |-> a, view_key |-> k, amount |-> m,
               mixin |-> {}, use_dust |-> {}, dust_threshold |-> {}] :
                a \in Addresses, k \in SecretKeys, m \in {0, 1} }
      [] name = "get_random_outs" ->
            {BadRoot} \cup
            { [fmt |-> NoError, count |-> n, amounts |-> m] :
                n \in {50, 51}, m \in {10, 11} }
      [] name = "submit_raw_tx" ->
            {BadRoot} \cup
            { [fmt |-> NoError, hex |-> h[1], tx |-> h[2]] :
                h \in {<<TRUE, TRUE>>, <<TRUE, FALSE>>, <<FALSE, FALSE>>} }
      [] OTHER -> {BadRoot}

Query(uri, method, size, json, root) ==
    [uri |-> uri, method |-> method, body_size |-> size, json |-> json, root |-> root]

\* the handler name of a URI of the endpoint table, "none" for any other URI
RunOf(uri) ==
    IF \E i \in 1..Len(endpoints) : endpoints[i].name = uri
    THEN endpoints[CHOOSE i \in 1..Len(endpoints) : endpoints[i].name = uri].run
    ELSE "none"

MaxSizeOf(uri) ==
    IF \E i \in 1..Len(endpoints) : endpoints[i].name = uri
    THEN endpoints[CHOOSE i \in 1..Len(endpoints) : endpoints[i].name = uri].max_size
    ELSE 2 * 1024

\* the well-formed queries sent to a URI: a POST of exactly the size limit
\* with each request body
Queries(uri) ==
    { Query(uri, "POST", MaxSizeOf(uri), TRUE, root) : root \in Roots(RunOf(uri)) }

\* the queries of every method, size around the limit and JSON validity
AnyQueries(uri) ==
    { Query(uri, m, sz, j, BadRoot) :
        m \in {"POST", "GET"}, sz \in {MaxSizeOf(uri), MaxSizeOf(uri) + 1},
        j \in BOOLEAN }

----------------------------------------------------------------------------
(* State machine *)

NoExchange == [ran |-> FALSE, code |-> 0]

NoProbe == [op |-> "none"]

NoReader == [open |-> FALSE]

Init ==
    /\ accounts = << >>
    /\ requests = EmptyBag
    /\ ctx = [logged_in |-> FALSE]
    /\ last = NoExchange
    /\ probe = NoProbe
    /\ reader = NoReader

\* one HTTP request on the connection, served to completion by the worker
Http(query, env) ==
    \E resp \in {handle_http_request(query, accounts, requests, ctx.logged_in, env)} :
        /\ ctx' = [ctx EXCEPT !.logged_in = resp.logged_in]
        /\ requests' = resp.requests
        /\ UNCHANGED <<accounts, probe, reader>>
        /\ last' = [query |-> query, env |-> env,
                    code |-> resp.code, comment |-> resp.comment, body |-> resp.body,
                    ran |-> resp.ran, err |-> resp.err, ev |-> resp.ev,
                    sent |-> resp.sent,
                    pre |-> [logged_in |-> ctx.logged_in, accounts |-> accounts,
                             requests |-> requests]]

\* the response is written to the connection and the worker is idle again
SendResponse ==
    /\ last # NoExchange
    /\ last' = NoExchange
    /\ UNCHANGED <<accounts, requests, ctx, probe, reader>>

Serve(uri) ==
    \/ \E query \in Queries(uri), env \in Envs(RunOf(uri)) : Http(query, env)
    \/ \E query \in AnyQueries(uri) : Http(query, NoFailure)

Login ==
    /\ last = NoExchange
    /\ Serve("/login")

GetAddressInfo ==
    /\ last = NoExchange
    /\ Serve("/get_address_info")

GetAddressTxs ==
    /\ last = NoExchange
    /\ Serve("/get_address_txs")

GetUnspentOuts ==
    /\ last = NoExchange
    /\ Serve("/get_unspent_outs")

ImportRequest ==
    /\ last = NoExchange
    /\ Serve("/import_request")

GetRandomOuts ==
    /\ last = NoExchange
    /\ Serve("/get_random_outs")

SubmitRawTx ==
    /\ last = NoExchange
    /\ Serve("/submit_raw_tx")

GetTxtRecords ==
    /\ last = NoExchange
    /\ Serve("/get_txt_records")

UnknownPath ==
    /\ last = NoExchange
    /\ \E uri \in {"/", "/login/", "/version"} : Serve(uri)

\* admin: approve a pending CreateAccount request
AcceptCreate(a) ==
    /\ last = NoExchange
    /\ BagIn(<<"kCreateAccount", a>>, requests)
    /\ a \notin DOMAIN accounts
    /\ requests' = requests (-) SetToBag({<<"kCreateAccount", a>>})
    /\ accounts' = [x \in DOMAIN accounts \cup {a} |->
                        IF x = a THEN [status |-> "kActive", start_height |-> 1, scan_height |-> 1,
                                       outputs |-> << >>, spends |-> << >>]
                        ELSE accounts[x]]
    /\ last' = NoExchange
    /\ UNCHANGED <<ctx, probe, reader>>

\* admin: approve a pending ImportScan request (rescan from height 0)
AcceptImport(a) ==
    /\ last = NoExchange
    /\ BagIn(<<"kImportScan", a>>, requests)
    /\ a \in DOMAIN accounts
    /\ requests' = requests (-) SetToBag({<<"kImportScan", a>>})
    /\ accounts' = [accounts EXCEPT ![a].start_height = 0]
    /\ last' = NoExchange
    /\ UNCHANGED <<ctx, probe, reader>>

\* admin: reject a pending request
RejectRequest(kind, a) ==
    /\ last = NoExchange
    /\ BagIn(<<kind, a>>, requests)
    /\ requests' = requests (-) SetToBag({<<kind, a>>})
    /\ last' = NoExchange
    /\ UNCHANGED <<accounts, ctx, probe, reader>>

\* admin: change the status of an account
ChangeStatus(a, status) ==
    /\ last = NoExchange
    /\ a \in DOMAIN accounts
    /\ accounts[a].status # status
    /\ accounts' = [accounts EXCEPT ![a].status = status]
    /\ last' = NoExchange
    /\ UNCHANGED <<requests, ctx, probe, reader>>

Admin ==
    \/ \E a \in Addresses : AcceptCreate(a)
    \/ \E a \in Addresses : AcceptImport(a)
    \/ \E a \in Addresses, kind \in {"kCreateAccount", "kImportScan"} : RejectRequest(kind, a)
    \/ \E a \in Addresses, status \in Statuses : ChangeStatus(a, status)

Next ==
    \/ Login
    \/ GetAddressInfo
    \/ GetAddressTxs
    \/ GetUnspentOuts
    \/ ImportRequest
    \/ GetRandomOuts
    \/ SubmitRawTx
    \/ GetTxtRecords
    \/ UnknownPath
    \/ SendResponse
    \/ Admin

Spec == Init /\ [][Next]_vars

----------------------------------------------------------------------------
(* The read handlers over an account that has outputs and spends.  The     *)
(* scanner that records them is outside this front end: the store starts   *)
(* with any selection of the records below, kept in the store's order      *)
(* (outputs by id, spends by link then source, invariant 2).               *)

\* CRYPTONOTE_MINED_MONEY_UNLOCK_WINDOW: a coinbase output's unlock_time is its
\* height plus this window
coinbase_unlock_window == 60

\* an amount of which two overflow std::uint64_t
BigAmount == WordModulus \div 2

Amounts == {1, BigAmount}

\* the transactions: A and B are in the same block and B's hash is the lesser
TxA == [height |-> 1, tx_hash |-> 2]
TxB == [height |-> 1, tx_hash |-> 1]
TxC == [height |-> 2, tx_hash |-> 3]
TxD == [height |-> 3, tx_hash |-> 4]

Output(high, low, link, index, unlock_time, coinbase, amount, mixin_count) ==
    [spend_meta |-> [id |-> [high |-> high, low |-> low], amount |-> amount,
                     mixin_count |-> mixin_count, index |-> index,
                     tx_public |-> 200 + link.tx_hash],
     link |-> link, unlock_time |-> unlock_time, coinbase |-> coinbase]

NOutputs == 4

\* the i-th output the account can have received, in id order: two outputs
\* of transaction A (one unlocked, one locked until a wall-clock time), the
\* coinbase output of B, and an output of C locked until a block height
PoolOutput(i, amount, mixin_count) ==
    CASE i = 1 -> Output(1, 0, TxA, 0, 0, FALSE, amount, mixin_count)
      [] i = 2 -> Output(1, 1, TxA, 1, CRYPTONOTE_MAX_BLOCK_NUMBER + 2, FALSE,
                         amount, mixin_count)
      [] i = 3 -> Output(1, 2, TxB, 0, TxB.height + coinbase_unlock_window, TRUE,
                         amount, mixin_count)
      [] i = 4 -> Output(2, 0, TxC, 0, 61, FALSE, amount, mixin_count)

\* what the store holds of the i-th output: nothing, or its amount and mixin
OutputChoices(i) ==
    {<< >>} \cup { <<amount, mixin_count>> :
                    amount \in Amounts,
                    mixin_count \in IF i = 1 THEN {0, 1} ELSE {i % 2} }

\* the selections of outputs: what the store holds of each
OutputPicks ==
    { pick \in [1..NOutputs -> UNION { OutputChoices(i) : i \in 1..NOutputs }] :
        \A i \in 1..NOutputs : pick[i] \in OutputChoices(i) }

RECURSIVE StoredOutputs(_, _)
StoredOutputs(pick, i) ==
    IF i > NOutputs THEN << >>
    ELSE (IF pick[i] = << >> THEN << >>
          ELSE <<PoolOutput(i, pick[i][1], pick[i][2])>>) \o StoredOutputs(pick, i + 1)

Spend(source, link, image, mixin_count) ==
    [source |-> source, link |-> link, image |-> image, mixin_count |-> mixin_count,
     unlock_time |-> 0]

\* the spends the account can have, in (link, source) order: the first
\* output spent in C and (a second candidate key image) in D, the second
\* output spent in D
SpendPool ==
    << Spend([high |-> 1, low |-> 0], TxC, 11, 1),
       Spend([high |-> 1, low |-> 0], TxD, 13, 0),
       Spend([high |-> 1, low |-> 1], TxD, 12, 1) >>

RECURSIVE StoredSpends(_, _)
StoredSpends(kept, i) ==
    IF i > Len(SpendPool) THEN << >>
    ELSE (IF i \in kept THEN <<SpendPool[i]>> ELSE << >>) \o StoredSpends(kept, i + 1)

\* the address of the account that has records
DataAddress == 1

DataInit ==
    /\ \E pick \in OutputPicks :
       \E kept \in SUBSET (1..Len(SpendPool)) :
            accounts = (DataAddress :>
                            [status |-> "kActive", start_height |-> 1, scan_height |-> 3,
                             outputs |-> StoredOutputs(pick, 1),
                             spends |-> StoredSpends(kept, 1)])
    /\ requests = EmptyBag
    /\ ctx = [logged_in |-> FALSE]
    /\ last = NoExchange
    /\ probe = NoProbe
    /\ reader = NoReader

\* env with the last block at height and the clock at now
At(env, height, now) == [env EXCEPT !.height = height, !.now = now]

\* last blocks around the height that unlocks the coinbase output and the output of C
ChainHeights == {60, 61, 62}

\* clocks before and at the time that unlocks the second output of A
Clocks == {CRYPTONOTE_MAX_BLOCK_NUMBER + 1, CRYPTONOTE_MAX_BLOCK_NUMBER + 2}

DataRoot == [fmt |-> NoError, address |-> DataAddress, view_key |-> DataAddress]

UnspentRoots ==
    { [fmt |-> NoError, address |-> DataAddress, view_key |-> DataAddress,
       amount |-> amount, mixin |-> mixin, use_dust |-> use_dust,
       dust_threshold |-> dust_threshold] :
        amount \in {0, BigAmount + 1}, mixin \in {{}, {1}},
        use_dust \in {{}, {TRUE}, {FALSE}}, dust_threshold \in {{}, {BigAmount}} }

ReadAddressInfo ==
    /\ last = NoExchange
    /\ \E rates \in BOOLEAN, height \in ChainHeights, now \in Clocks :
        Http(Query("/get_address_info", "POST", 2 * 1024, TRUE, DataRoot),
             At(Env("none", rates, TRUE, TRUE), height, now))

ReadAddressTxs ==
    /\ last = NoExchange
    /\ \E height \in ChainHeights :
        Http(Query("/get_address_txs", "POST", 2 * 1024, TRUE, DataRoot),
             At(NoFailure, height, CRYPTONOTE_MAX_BLOCK_NUMBER + 1))

ReadUnspentOuts ==
    /\ last = NoExchange
    /\ \E root \in UnspentRoots, fail \in {"none", "get_images", "receive"} :
        Http(Query("/get_unspent_outs", "POST", 2 * 1024, TRUE, root),
             At(Env(fail, TRUE, TRUE, TRUE), 61, CRYPTONOTE_MAX_BLOCK_NUMBER + 1))

DataNext ==
    \/ ReadAddressInfo
    \/ ReadAddressTxs
    \/ ReadUnspentOuts
    \/ SendResponse

DataSpec == DataInit /\ [][DataNext]_vars

----------------------------------------------------------------------------
(* is_locked on its own *)

UnlockTimes ==
    {0, 60, 61, 62, CRYPTONOTE_MAX_BLOCK_NUMBER - 1, CRYPTONOTE_MAX_BLOCK_NUMBER,
     CRYPTONOTE_MAX_BLOCK_NUMBER + 1, CRYPTONOTE_MAX_BLOCK_NUMBER + 2,
     CRYPTONOTE_MAX_BLOCK_NUMBER + 3}

LastBlocks == {0, 60, 61, 62, CRYPTONOTE_MAX_BLOCK_NUMBER}

WallClocks == {61, CRYPTONOTE_MAX_BLOCK_NUMBER + 1, CRYPTONOTE_MAX_BLOCK_NUMBER + 2}

EvalIsLocked ==
    /\ \E unlock_time \in UnlockTimes, last_id \in LastBlocks, now \in WallClocks :
        probe' = [op |-> "is_locked", unlock_time |-> unlock_time, last |-> last_id,
                  now |-> now, result |-> is_locked(unlock_time, last_id, now)]
    /\ UNCHANGED <<accounts, requests, ctx, last, reader>>

LockNext == EvalIsLocked

LockSpec == Init /\ [][LockNext]_vars

----------------------------------------------------------------------------
(* get_random_outs against an oracle that answers anything: the connection *)
(* is logged in and the oracle's two responses are drawn from small sets   *)

\* the most outputs the oracle returns for the first amount
MaxOuts == 2

\* the most keys the oracle returns
MaxKeys == 3

PublicKeys == {1, 2, 3}

\* the outputs the oracle may offer for an amount
RandomOutput == { [amount_index |-> i, key |-> k] : i \in {0, 1}, k \in PublicKeys }

\* the sequences over a set of at most the given length
SeqsUpTo(set, n) == UNION { [1..len -> set] : len \in 0..n }

\* the first response: no amount, one amount, or two of which the second
\* has at most one output
RandomResponses ==
    {<< >>}
    \cup { << [amount |-> 5, outputs |-> first] >> :
            first \in SeqsUpTo(RandomOutput, MaxOuts) }
    \cup { << [amount |-> 5, outputs |-> first], [amount |-> 6, outputs |-> second] >> :
            first \in SeqsUpTo(RandomOutput, MaxOuts),
            second \in SeqsUpTo(RandomOutput, 1) }

\* the second response: keys in any order, possibly repeated or missing
KeyResponses ==
    { [i \in DOMAIN picked |-> KeyMask(picked[i])] :
        picked \in SeqsUpTo(PublicKeys, MaxKeys) }

\* the environment of a request whose oracle answers with these responses
Oracle(env, random, keys) == [env EXCEPT !.random = random, !.keys = keys]

OracleInit ==
    /\ accounts = [a \in {DataAddress} |->
                    [status |-> "kActive", start_height |-> 1, scan_height |-> 1,
                     outputs |-> << >>, spends |-> << >>]]
    /\ requests = EmptyBag
    /\ ctx = [logged_in |-> TRUE]
    /\ last = NoExchange
    /\ probe = NoProbe
    /\ reader = NoReader

RandomOutsQuery ==
    Query("/get_random_outs", "POST", 2 * 1024, TRUE,
          [fmt |-> NoError, count |-> 50, amounts |-> 10])

\* the oracle answers both calls
AskRandomOuts ==
    /\ last = NoExchange
    /\ \E random \in RandomResponses, keys \in KeyResponses :
        Http(RandomOutsQuery, Oracle(NoFailure, random, keys))

\* one of the steps of the exchange fails
AskRandomOutsFailing ==
    /\ last = NoExchange
    /\ \E random \in RandomResponses,
          fail \in {"clone", "send", "receive", "send2", "receive2"} :
        Http(RandomOutsQuery,
             Oracle(Env(fail, TRUE, TRUE, TRUE), random, << >>))

OracleNext ==
    \/ AskRandomOuts
    \/ AskRandomOutsFailing
    \/ SendResponse

OracleSpec == OracleInit /\ [][OracleNext]_vars

----------------------------------------------------------------------------
(* expect<T> and expect<void> on their own.  An object is its error code   *)
(* code_ and its storage_, the set of the T objects alive in it (always    *)
(* empty for expect<void>).                                                *)

\* common_error::kInvalidErrorCode, an error of the common category
kInvalidErrorCode == "kInvalidErrorCode"

\* values of T
MaxValue == 2

\* has_error: bool(code_), true unless the value of the code is 0; "ok" is
\* std::error_code{} and "lws_0" is lws::error(0)
has_error(object) == object.code_ \notin {NoError, "lws_0"}

has_value(object) == ~has_error(object)

\* store: construct a T in the storage and reset the code
store(object, value) == [object EXCEPT !.storage_ = {value}, !.code_ = NoError]

\* expect(std::error_code const&) that keeps the code it is given
expect_code_unchecked(type, code) ==
    [type |-> type, code_ |-> code, storage_ |-> {}]

\* expect(std::error_code const&), of expect<T> and of expect<void>
expect_code(type, code) ==
    LET made == [type |-> type, code_ |-> code, storage_ |-> {}] IN
    IF ~has_error(made) THEN [made EXCEPT !.code_ = kInvalidErrorCode] ELSE made

\* expect(expect const&) and expect(expect&&): the code of src, and a T
\* constructed from the value of src when it has one
expect_copy(src) ==
    LET made == [type |-> src.type, code_ |-> src.code_, storage_ |-> {}] IN
    IF src.type = "T" /\ has_value(src)
    THEN store(made, CHOOSE v \in src.storage_ : TRUE)
    ELSE made

\* operator=(expect const&) and operator=(expect&&); same: src is *this
expect_assign(this, src, same) ==
    IF same THEN this
    ELSE IF this.type = "void" THEN src
    ELSE LET kept ==
                IF has_value(this) /\ has_value(src)
                    THEN [this EXCEPT !.storage_ = src.storage_]
                ELSE IF has_value(this) THEN [this EXCEPT !.storage_ = {}]
                ELSE IF has_value(src)
                    THEN store(this, CHOOSE v \in src.storage_ : TRUE)
                ELSE this IN
         [kept EXCEPT !.code_ = src.code_]

\* the constructors: from an error code, from a value of T, and the
\* default constructor of expect<void>; each with the object it makes
Constructed(type) ==
    { [arg |-> <<"code", code>>, object |-> expect_code(type, code)] :
        code \in LwsErrors \cup {NoError, "lws_0", "kInvalidHex", "errc_timed_out",
                                 kInvalidErrorCode} }
    \cup (IF type = "T"
          THEN { [arg |-> <<"value", v>>,
                  object |-> store([type |-> "T", code_ |-> NoError,
                                    storage_ |-> {}], v)] : v \in 1..MaxValue }
          ELSE { [arg |-> <<"default">>,
                  object |-> [type |-> "void", code_ |-> NoError, storage_ |-> {}]] })

\* an object is constructed from an error code, from a value, or by default
ConstructExpect ==
    /\ \E type \in {"T", "void"} : \E made \in Constructed(type) :
        probe' = [op |-> "construct", this |-> made.object, src |-> made.object,
                  arg |-> made.arg, result |-> << >>]
    /\ UNCHANGED <<accounts, requests, ctx, last, reader>>

\* an object is copy or move constructed from the current one
CopyExpect ==
    /\ probe.op # "none"
    /\ \E move \in BOOLEAN : \E moved \in IF move THEN 1..MaxValue ELSE {1} :
        probe' = [op |-> "copy", this |-> expect_copy(probe.this),
                  \* the T moved from stays alive in src, in any state
                  src |-> IF move /\ probe.this.type = "T" /\ has_value(probe.this)
                          THEN [probe.this EXCEPT !.storage_ = {moved}]
                          ELSE probe.this,
                  arg |-> << >>, result |-> << >>]
    /\ UNCHANGED <<accounts, requests, ctx, last, reader>>

\* another object, or the current one itself, is copy or move assigned to
\* the current one
AssignExpect ==
    /\ probe.op # "none"
    /\ \E same \in BOOLEAN, move \in BOOLEAN :
       \E moved \in IF move /\ ~same THEN 1..MaxValue ELSE {1},
          src \in IF same THEN {probe.this}
                  ELSE { made.object : made \in Constructed(probe.this.type) } :
        probe' = [op |-> "assign",
                  this |-> expect_assign(probe.this, src, same),
                  src |-> IF same THEN expect_assign(probe.this, src, same)
                          ELSE IF move /\ src.type = "T" /\ has_value(src)
                               THEN [src EXCEPT !.storage_ = {moved}]
                          ELSE src,
                  arg |-> <<probe.this>>, result |-> << >>]
    /\ UNCHANGED <<accounts, requests, ctx, last, reader>>

\* the current object is compared with an error code and with a condition;
\* the conditions of the common category are defined outside these sources
CompareExpect ==
    /\ probe.op # "none"
    /\ \E code \in {NoError, "kNoSuchAccount", "kDaemonTimeout", kInvalidErrorCode},
          cond \in { errc(name) :
                        name \in {"timed_out", "interrupted", "bad_address",
                                  "no_buffer_space", "result_out_of_range",
                                  "invalid_argument", "connection_refused",
                                  "io_error", "no_lock_available",
                                  "state_not_recoverable", "operation_canceled"} },
          common \in IF probe.this.code_ = kInvalidErrorCode
                     THEN BOOLEAN ELSE {FALSE} :
        probe' = [probe EXCEPT
                    !.op = "compare", !.arg = <<code, cond>>,
                    !.result = << equal(probe.this.code_, code),
                                  IF probe.this.code_ = kInvalidErrorCode
                                  THEN common
                                  ELSE matches(probe.this.code_, cond) >>]
    /\ UNCHANGED <<accounts, requests, ctx, last, reader>>

ExpectSpec ==
    Init /\ [][ConstructExpect \/ CopyExpect \/ AssignExpect \/ CompareExpect]_vars

----------------------------------------------------------------------------
(* key_iterator on its own.  A key_stream owns one MDB_cursor; the         *)
(* key_iterators made from it and their copies hold a pointer to that      *)
(* cursor and the key they last read, the value_iterators made from them   *)
(* the same pointer and the record they last read.  `cursor` is the index  *)
(* in Table of the cursor's record, 0 once it ran off the table (reads at  *)
(* such a cursor are left out: their outcome is LMDB's).                   *)

\* key_iterators and value_iterators alive at a time
MaxIterators == 2

\* the records of the table in (key, value) order: a key has one or more values
Table ==
    << [k |-> 1, v |-> 11], [k |-> 1, v |-> 12], [k |-> 2, v |-> 21],
       [k |-> 2, v |-> 22], [k |-> 3, v |-> 31] >>

\* lmdb::stream::get: the cursor after the operation and the record read,
\* 0 for MDB_NOTFOUND
stream_get(cursor, op) ==
    CASE op = "MDB_NEXT_NODUP" ->
            IF \E i \in (cursor + 1)..Len(Table) : Table[i].k # Table[cursor].k
            THEN LET next == CHOOSE i \in (cursor + 1)..Len(Table) :
                                /\ Table[i].k # Table[cursor].k
                                /\ \A j \in (cursor + 1)..(i - 1) :
                                        Table[j].k = Table[cursor].k IN
                 [cursor |-> next, found |-> next]
            ELSE [cursor |-> 0, found |-> 0]
      [] op = "MDB_NEXT_DUP" ->
            IF cursor < Len(Table) /\ Table[cursor + 1].k = Table[cursor].k
            THEN [cursor |-> cursor + 1, found |-> cursor + 1]
            ELSE [cursor |-> cursor, found |-> 0]
      [] OTHER -> [cursor |-> cursor, found |-> cursor]

\* key_iterator::increment on a cursor of the iterator's own
increment_own_cursor(cursor) ==
    LET got == stream_get(cursor, "MDB_NEXT_NODUP") IN
    [cursor |-> cursor, key |-> IF got.found = 0 THEN 0 ELSE Table[got.found].k]

\* key_iterator::increment: the cursor moves and this iterator reads its key
increment(cursor) ==
    LET got == stream_get(cursor, "MDB_NEXT_NODUP") IN
    [cursor |-> got.cursor, key |-> IF got.found = 0 THEN 0 ELSE Table[got.found].k]

\* key_stream::make_iterator, or the copy of a key_iterator.  prior: another
\* iterator of the cursor was advanced since this one read its key
MakeIterator ==
    /\ \/ /\ probe.op = "none"
          /\ probe' = [op |-> "make", cursor |-> 1, arg |-> 0,
                       keys |-> <<[key |-> Table[1].k, prior |-> FALSE]>>,
                       values |-> << >>]
       \/ /\ probe.op # "none" /\ probe.cursor # 0
          /\ Len(probe.keys) < MaxIterators
          /\ \E it \in {[key |-> Table[stream_get(probe.cursor,
                                           "MDB_GET_CURRENT").found].k,
                         prior |-> FALSE]}
                       \cup { probe.keys[c] : c \in 1..Len(probe.keys) } :
                probe' = [probe EXCEPT !.op = "make", !.arg = 0,
                                       !.keys = Append(@, it)]
    /\ UNCHANGED <<accounts, requests, ctx, last, reader>>

\* operator++ and operator++(int) of the i-th key_iterator; the old copy
\* operator++(int) returns is kept when there is room for it
AdvanceKey ==
    /\ probe.op # "none" /\ probe.cursor # 0
    /\ \E i \in 1..Len(probe.keys), post \in BOOLEAN :
        \E moved \in {increment(probe.cursor)} :
            probe' = [op |-> "advance", arg |-> probe.cursor, cursor |-> moved.cursor,
                      keys |->
                        [j \in 1..Len(probe.keys) |->
                            IF j = i THEN [key |-> moved.key, prior |-> FALSE]
                            ELSE [probe.keys[j] EXCEPT !.prior = TRUE]]
                        \o (IF post /\ Len(probe.keys) < MaxIterators
                            THEN <<[probe.keys[i] EXCEPT !.prior = TRUE]>>
                            ELSE << >>),
                      values |-> [j \in 1..Len(probe.values) |->
                                    [probe.values[j] EXCEPT !.prior = TRUE]]]
    /\ UNCHANGED <<accounts, requests, ctx, last, reader>>

\* make_value_iterator and make_value_range of the i-th key_iterator:
\* value_iterator{cur} reads the record the cursor is at
MakeValueRange ==
    /\ probe.op # "none" /\ probe.cursor # 0
    /\ Len(probe.values) < MaxIterators
    /\ \E i \in 1..Len(probe.keys) :
        probe' = [probe EXCEPT
                    !.op = "make_value", !.arg = i,
                    !.values = Append(@,
                        [values |-> stream_get(probe.cursor, "MDB_GET_CURRENT").found,
                         made_for |-> probe.keys[i].key, made_at |-> Table[probe.cursor].k,
                         prior |-> FALSE])]
    /\ UNCHANGED <<accounts, requests, ctx, last, reader>>

\* operator++ of the j-th value_iterator: the next value of the cursor's key
AdvanceValue ==
    /\ probe.op # "none" /\ probe.cursor # 0
    /\ \E j \in 1..Len(probe.values) :
        /\ probe.values[j].values # 0
        /\ \E got \in {stream_get(probe.cursor, "MDB_NEXT_DUP")} :
            probe' = [probe EXCEPT !.op = "next_value", !.arg = j,
                                   !.cursor = got.cursor,
                                   !.values[j].values = got.found]
    /\ UNCHANGED <<accounts, requests, ctx, last, reader>>

CursorSpec ==
    Init /\ [][MakeIterator \/ AdvanceKey \/ MakeValueRange \/ AdvanceValue]_vars

----------------------------------------------------------------------------
(* The read handlers beside the writer: a handler opens its reader, reads  *)
(* the tables one at a time and answers, while the scanner commits between *)
(* any two of its steps                                                    *)

\* the reads a handler makes between start_read and the release of its reader
SnapshotReads(name) ==
    CASE name = "get_unspent_outs" -> <<"get_account", "get_outputs", "get_images">>
      [] OTHER -> <<"get_account", "get_outputs", "get_spends", "get_last_block">>

\* what the handler holds after a read of the given store
read_table(step, seen, db, address) ==
    CASE step = "get_account" ->
            (address :> [db[address] EXCEPT !.outputs = << >>, !.spends = << >>])
      [] step = "get_outputs" ->
            [seen EXCEPT ![address].outputs = db[address].outputs]
      [] step \in {"get_spends", "get_images"} ->
            [seen EXCEPT ![address].spends = db[address].spends]
      [] OTHER -> seen

SnapInit ==
    /\ accounts = (DataAddress :>
                    [status |-> "kActive", start_height |-> 1, scan_height |-> 1,
                     outputs |-> << >>, spends |-> << >>])
    /\ requests = EmptyBag
    /\ ctx = [logged_in |-> FALSE]
    /\ last = NoExchange
    /\ probe = NoProbe
    /\ reader = NoReader

\* the worker takes a request for a read endpoint and opens its reader
StartRead ==
    /\ last = NoExchange /\ ~reader.open
    /\ \E name \in {"get_address_info", "get_address_txs", "get_unspent_outs"},
          rates \in BOOLEAN :
        reader' = [open |-> TRUE, handler |-> name, snapshot |-> accounts,
                   stores |-> {accounts}, at |-> 1, seen |-> << >>,
                   env |-> At(Env("none", rates, TRUE, TRUE), 61,
                              CRYPTONOTE_MAX_BLOCK_NUMBER + 1)]
    /\ UNCHANGED <<accounts, requests, ctx, last, probe>>

\* the handler reads the next table: every read goes through the one
\* reader it opened, whose snapshot is the store at start_read
ReadStep ==
    /\ reader.open /\ reader.at <= Len(SnapshotReads(reader.handler))
    /\ reader' = [reader EXCEPT
                    !.at = @ + 1,
                    !.seen = read_table(SnapshotReads(reader.handler)[reader.at], @,
                                reader.snapshot, DataAddress)]
    /\ UNCHANGED <<accounts, requests, ctx, last, probe>>

\* the handler releases its reader and answers from what it read
FinishRead ==
    /\ reader.open /\ reader.at > Len(SnapshotReads(reader.handler))
    /\ \E query \in {Query("/" \o reader.handler, "POST", 2 * 1024, TRUE,
                          [fmt |-> NoError, address |-> DataAddress,
                           view_key |-> DataAddress, amount |-> 0, mixin |-> {},
                           use_dust |-> {}, dust_threshold |-> {}])} :
       \E resp \in {handle_http_request(query, reader.seen, requests,
                                        ctx.logged_in, reader.env)} :
        /\ ctx' = [ctx EXCEPT !.logged_in = resp.logged_in]
        /\ last' = [query |-> query, env |-> reader.env,
                    code |-> resp.code, comment |-> resp.comment, body |-> resp.body,
                    ran |-> resp.ran, err |-> resp.err, ev |-> resp.ev,
                    sent |-> resp.sent, stores |-> reader.stores,
                    pre |-> [logged_in |-> ctx.logged_in, accounts |-> reader.snapshot,
                             requests |-> requests]]
    /\ reader' = NoReader
    /\ UNCHANGED <<accounts, requests, probe>>

\* the scanner commits its next write transaction, all of it at once: an
\* output of the account together with a spend of it, and the height it
\* scanned to
Commit ==
    /\ Len(accounts[DataAddress].outputs) < 2
    /\ \E next \in {IF accounts[DataAddress].outputs = << >>
                    THEN [output |-> PoolOutput(1, 1, 0), spend |-> SpendPool[1],
                          scan_height |-> 2]
                    ELSE [output |-> PoolOutput(2, 1, 0), spend |-> SpendPool[3],
                          scan_height |-> 3]} :
        /\ accounts' = [accounts EXCEPT
                            ![DataAddress].outputs = Append(@, next.output),
                            ![DataAddress].spends = Append(@, next.spend),
                            ![DataAddress].scan_height = next.scan_height]
        /\ reader' = IF reader.open
                     THEN [reader EXCEPT !.stores = @ \cup {accounts'}]
                     ELSE reader
    /\ UNCHANGED <<requests, ctx, last, probe>>

SnapSpec ==
    SnapInit /\ [][StartRead \/ ReadStep \/ FinishRead \/ Commit \/ SendResponse]_vars

----------------------------------------------------------------------------
(* Two workers serving login and import_request at the same time.  Each    *)
(* call is dispatched, opens its read snapshot, and after releasing it     *)
(* calls the writer, which runs on the store as it is then; the writer's   *)
(* transaction is atomic.  The admin acts only between calls, so the       *)
(* account table does not change while a call is in flight.                *)

\* a worker accepts a request: login with create_account, or import_request,
\* with the right view key (probe holds the calls of the two workers, none
\* when both are idle)
RaceCall(w) ==
    /\ probe = NoProbe \/ (probe.op = "race" /\ probe.calls[w].pc = "idle")
    /\ \E a \in Addresses, uri \in {"/login", "/import_request"} :
        LET calls == IF probe = NoProbe THEN [v \in 1..2 |-> [pc |-> "idle"]]
                     ELSE probe.calls IN
        probe' = [op |-> "race", calls |->
            [v \in 1..2 |->
                IF v = w
                THEN [pc |-> "called",
                      beside |-> \E o \in 1..2 : calls[o].pc # "idle",
                      query |-> Query(uri, "POST", 2 * 1024, TRUE,
                                    IF uri = "/login"
                                    THEN [fmt |-> NoError, address |-> a, view_key |-> a,
                                          create_account |-> TRUE]
                                    ELSE [fmt |-> NoError, address |-> a, view_key |-> a])]
                ELSE IF calls[v].pc # "idle" THEN [calls[v] EXCEPT !.beside = TRUE]
                ELSE calls[v]]]
    /\ UNCHANGED <<accounts, requests, ctx, last, reader>>

\* disk.start_read(): the handler's reads see the store as it is now
RaceRead(w) ==
    /\ probe.op = "race" /\ probe.calls[w].pc = "called"
    /\ probe' = [probe EXCEPT !.calls[w] =
                    [pc |-> "reading", snapshot |-> requests] @@ @]
    /\ UNCHANGED <<accounts, requests, ctx, last, reader>>

\* RaceFinish with the reads made from the store as it is when the writer runs
RaceFinish_reads_live(w) ==
    /\ probe.op = "race" /\ probe.calls[w].pc = "reading"
    /\ \E fail \in {"none", "commit"} :
       \E resp \in {handle_http_request(probe.calls[w].query, accounts, requests, FALSE,
                        [snapshot |-> requests]
                            @@ Env(fail, TRUE, TRUE, TRUE))} :
        /\ requests' = resp.requests
        /\ probe' = [probe EXCEPT !.calls[w] =
                        [pc |-> "done", fail |-> fail, code |-> resp.code,
                         err |-> resp.err, body |-> resp.body, ev |-> resp.ev,
                         logged_in |-> resp.logged_in] @@ @]
    /\ UNCHANGED <<accounts, ctx, last, reader>>

\* the rest of the handler: the reads from the snapshot, its release, the
\* writer on the store as it is now, and the response
RaceFinish(w) ==
    /\ probe.op = "race" /\ probe.calls[w].pc = "reading"
    /\ \E fail \in {"none", "commit"} :
       \E resp \in {handle_http_request(probe.calls[w].query, accounts, requests, FALSE,
                        [snapshot |-> probe.calls[w].snapshot]
                            @@ Env(fail, TRUE, TRUE, TRUE))} :
        /\ requests' = resp.requests
        /\ probe' = [probe EXCEPT !.calls[w] =
                        [pc |-> "done", fail |-> fail, code |-> resp.code,
                         err |-> resp.err, body |-> resp.body, ev |-> resp.ev,
                         logged_in |-> resp.logged_in] @@ @]
    /\ UNCHANGED <<accounts, ctx, last, reader>>

\* the responses are written and the workers are idle again
RaceRespond ==
    /\ probe.op = "race"
    /\ \A w \in 1..2 : probe.calls[w].pc \in {"idle", "done"}
    /\ probe' = NoProbe
    /\ UNCHANGED <<accounts, requests, ctx, last, reader>>

RaceSpec ==
    Init /\ [][\/ \E w \in 1..2 : RaceCall(w) \/ RaceRead(w) \/ RaceFinish(w)
               \/ RaceRespond
               \/ probe = NoProbe /\ Admin]_vars

----------------------------------------------------------------------------
(* The merge loop of get_address_txs, one iteration at a time, over the    *)
(* outputs and spends of the account that has records.                     *)

\* WalkStep taking the output only when its link is strictly the lesser
WalkStep_strict_output_test ==
    /\ probe = NoProbe \/ (probe.op = "walk" /\ probe.thrown = "")
    /\ LET outputs == accounts[DataAddress].outputs
           spends == accounts[DataAddress].spends IN
       IF probe = NoProbe
       THEN probe' = [op |-> "walk", o |-> 1, s |-> 1, iterations |-> 0, thrown |-> "",
                      acc |-> [txes |-> << >>, metas |-> << >>, received |-> 0]]
       ELSE LET o == probe.o
                s == probe.s
                acc == probe.acc
                output_is_end == o > Len(outputs)
                spend_is_end == s > Len(spends)
                ran == [probe EXCEPT !.iterations = @ + 1] IN
            /\ ~(output_is_end /\ spend_is_end)
            /\ probe' =
                IF acc.txes # << >>
                    /\ \/ ~output_is_end
                            /\ link_less(outputs[o].link, acc.txes[Len(acc.txes)].info.link)
                       \/ ~spend_is_end
                            /\ link_less(spends[s].link, acc.txes[Len(acc.txes)].info.link)
                THEN [ran EXCEPT !.thrown = UnexpectedSortOrder]
                ELSE IF spend_is_end
                        \/ (~output_is_end /\ link_less(outputs[o].link, spends[s].link))
                THEN [ran EXCEPT !.o = @ + 1, !.acc = txs_take_output(acc, outputs[o])]
                ELSE IF output_is_end \/ link_less(spends[s].link, outputs[o].link)
                THEN LET meta == find_metadata(acc.metas, spends[s].source) IN
                     IF meta = Len(acc.metas) + 1 \/ acc.metas[meta].id # spends[s].source
                     THEN [ran EXCEPT !.thrown = NoReceiveForSpend]
                     ELSE [ran EXCEPT !.s = @ + 1,
                                      !.acc = txs_take_spend(acc, spends[s], acc.metas[meta])]
                ELSE ran
    /\ UNCHANGED <<accounts, requests, ctx, last, reader>>

\* the cursors are made and the loop is entered (probe holds the loop's
\* variables), then one iteration of the while loop: the check of the sort
\* order, then the output branch or the spend branch
WalkStep ==
    /\ probe = NoProbe \/ (probe.op = "walk" /\ probe.thrown = "")
    /\ LET outputs == accounts[DataAddress].outputs
           spends == accounts[DataAddress].spends IN
       IF probe = NoProbe
       THEN probe' = [op |-> "walk", o |-> 1, s |-> 1, iterations |-> 0, thrown |-> "",
                      acc |-> [txes |-> << >>, metas |-> << >>, received |-> 0]]
       ELSE LET o == probe.o
                s == probe.s
                acc == probe.acc
                output_is_end == o > Len(outputs)
                spend_is_end == s > Len(spends)
                ran == [probe EXCEPT !.iterations = @ + 1] IN
            /\ ~(output_is_end /\ spend_is_end)
            /\ probe' =
                IF acc.txes # << >>
                    /\ \/ ~output_is_end
                            /\ link_less(outputs[o].link, acc.txes[Len(acc.txes)].info.link)
                       \/ ~spend_is_end
                            /\ link_less(spends[s].link, acc.txes[Len(acc.txes)].info.link)
                THEN [ran EXCEPT !.thrown = UnexpectedSortOrder]
                ELSE IF spend_is_end
                        \/ (~output_is_end /\ link_less_equal(outputs[o].link, spends[s].link))
                THEN [ran EXCEPT !.o = @ + 1, !.acc = txs_take_output(acc, outputs[o])]
                ELSE IF output_is_end \/ link_less(spends[s].link, outputs[o].link)
                THEN LET meta == find_metadata(acc.metas, spends[s].source) IN
                     IF meta = Len(acc.metas) + 1 \/ acc.metas[meta].id # spends[s].source
                     THEN [ran EXCEPT !.thrown = NoReceiveForSpend]
                     ELSE [ran EXCEPT !.s = @ + 1,
                                      !.acc = txs_take_spend(acc, spends[s], acc.metas[meta])]
                ELSE ran
    /\ UNCHANGED <<accounts, requests, ctx, last, reader>>

\* the loop runs to its end: nothing else runs in a handler's thread
WalkSpec == DataInit /\ [][WalkStep]_vars /\ WF_vars(WalkStep)

----------------------------------------------------------------------------
(* The requests of one connection over a store that holds one account, of  *)
(* every status: the three enumerators of db::account_status and a value   *)
(* that is none of them (a corrupt or later-version record).               *)

StatusSpec ==
    /\ \E status \in Statuses \cup {"unknown"} :
        /\ accounts = (DataAddress :> [status |-> status, start_height |-> 1,
                                       scan_height |-> 1, outputs |-> << >>,
                                       spends |-> << >>])
        /\ requests = EmptyBag
        /\ ctx = [logged_in |-> FALSE]
        /\ last = NoExchange
        /\ probe = NoProbe
        /\ reader = NoReader
    /\ [][Login \/ GetAddressInfo \/ GetAddressTxs \/ GetUnspentOuts \/ ImportRequest
            \/ GetRandomOuts \/ SubmitRawTx \/ GetTxtRecords \/ UnknownPath
            \/ SendResponse]_vars

----------------------------------------------------------------------------
(* Properties.  They are stated about the exchange recorded in `last`: the *)
(* query and environment outcomes that went in, the db and flag before  *)
(* (last.pre), and the response, the steps performed and the state after.  *)

Range(seq) == { seq[i] : i \in 1..Len(seq) }

AddressBearing ==
    {"login", "get_address_info", "get_address_txs", "get_unspent_outs", "import_request"}

\* the handler `last` ran, "none" when no handler was invoked
Handler == IF last.ran THEN RunOf(last.query.uri) ELSE "none"

\* a handler of `names` was invoked and the request fields parsed
Parsed(names) == Handler \in names /\ last.query.root.fmt = NoError

Root == last.query.root

\* the public key derived from the submitted view key differs from the address's
Mismatch ==
    LET derived == secret_key_to_public_key(Root.view_key) IN
    ~derived.ok \/ derived.pub # view_public(Root.address)

\* the account the db held for the request's address before the request
PreStatus ==
    IF Root.address \in DOMAIN last.pre.accounts
    THEN last.pre.accounts[Root.address].status
    ELSE "absent"

\* the environment steps a handler performs before it checks the view key
BeforeKeyCheck(name) ==
    CASE name \in {"get_address_info", "get_address_txs"} -> {"start_read"}
      [] name = "get_unspent_outs" -> {"clone", "send"}
      [] OTHER -> {}

\* the environment steps a handler performs up to and including the lookup
UpToLookup(name) ==
    CASE name = "get_unspent_outs" -> {"clone", "send", "start_read", "get_account"}
      [] OTHER -> {"start_read", "get_account"}

Unchanged == ctx.logged_in = last.pre.logged_in /\ requests = last.pre.requests

(* C1 as stated: a view key that does not derive the address's view-public *)
(* key makes every address-bearing handler fail with BadViewKey, without   *)
(* the account table being consulted.                                      *)
C1_Original ==
    (Parsed(AddressBearing) /\ Mismatch) =>
        /\ last.err = "kBadViewKey"
        /\ "get_account" \notin Range(last.ev)

(* C1: with a view key that does not derive the address's view-public key, *)
(* every address-bearing handler fails without consulting the account      *)
(* table and without changing any state, whatever account the address has: *)
(* with BadViewKey, unless a step the handler performs before the key      *)
(* check fails (opening the read snapshot in get_address_info and          *)
(* get_address_txs, cloning the oracle client or sending the fee request   *)
(* in get_unspent_outs), and then with that step's error.                  *)
C1_BadViewKey ==
    (Parsed(AddressBearing) /\ Mismatch) =>
        /\ "get_account" \notin Range(last.ev)
        /\ Unchanged
        /\ last.body = NoBody
        /\ last.err = IF last.env.fail \in BeforeKeyCheck(Handler)
                      THEN StepError(last.env.fail)
                      ELSE "kBadViewKey"

C1_Witness ==
    /\ Parsed(AddressBearing) /\ Mismatch
    /\ PreStatus = "kActive"
    /\ last.err = "kBadViewKey"

(* C2 as stated: for a Hidden account, every address-bearing endpoint      *)
(* (login with create_account = false) called with the correct view key    *)
(* fails with NoSuchAccount, HTTP 403, no body and logged_in not set.      *)
C2_Original ==
    ( /\ Parsed(AddressBearing) /\ ~Mismatch
      /\ PreStatus = "kHidden"
      /\ Handler = "login" => ~Root.create_account ) =>
        /\ last.err = "kNoSuchAccount"
        /\ last.code = 403
        /\ last.body = NoBody
        /\ ctx.logged_in = last.pre.logged_in

(* C2: for a Hidden account, every address-bearing endpoint called with    *)
(* the correct view key fails, returns no body and leaves logged_in and    *)
(* the db as they were; the error is NoSuchAccount (HTTP 403) unless a  *)
(* step up to the account lookup fails (the oracle clone or send of        *)
(* get_unspent_outs, opening the snapshot, the lookup read), and then that *)
(* step's error, which import_request reports as NoSuchAccount when it is  *)
(* the lookup read.                                                        *)
C2_Hidden ==
    ( /\ Parsed(AddressBearing) /\ ~Mismatch
      /\ PreStatus = "kHidden"
      /\ Handler = "login" => ~Root.create_account ) =>
        /\ last.code # 200
        /\ last.body = NoBody
        /\ Unchanged
        /\ last.err =
            IF last.env.fail \in UpToLookup(Handler)
               /\ ~(Handler = "import_request" /\ last.env.fail = "get_account")
            THEN StepError(last.env.fail)
            ELSE "kNoSuchAccount"
        /\ last.err = "kNoSuchAccount" => last.code = 403

C2_Witness ==
    /\ Parsed({"get_address_info"}) /\ ~Mismatch
    /\ PreStatus = "kHidden"
    /\ last.err = "kNoSuchAccount" /\ last.code = 403
    /\ ~ctx.logged_in

\* the db without the account of address a
Without(accts, a) == [x \in DOMAIN accts \ {a} |-> accts[x]]

HandlerUris ==
    { endpoints[i].name : i \in { k \in 1..Len(endpoints) : endpoints[k].run # "nullptr" } }

(* C3 as stated: a Hidden account is indistinguishable from an absent one: *)
(* every request of every endpoint, login with create_account = true       *)
(* included, gets the same status code and body from a db where the     *)
(* address has a Hidden account and from the same db without it.        *)
C3_Original ==
    last = NoExchange =>
        \A a \in DOMAIN accounts :
            accounts[a].status = "kHidden" =>
                \A uri \in HandlerUris :
                    \A query \in Queries(uri), env \in Envs(RunOf(uri)) :
                        LET hidden == handle_http_request(
                                query, accounts, requests, ctx.logged_in, env)
                            absent == handle_http_request(
                                query, Without(accounts, a), requests, ctx.logged_in, env)
                        IN  hidden.code = absent.code /\ hidden.body = absent.body

(* C4 as stated: a request whose view key does not derive the address's    *)
(* view-public key (the handler returns BadViewKey) is answered with HTTP  *)
(* 403, like a request for an address without an account.                  *)
C4_Original ==
    (Parsed(AddressBearing) /\ Mismatch /\ last.err = "kBadViewKey") => last.code = 403

(* C5: get_random_outs and submit_raw_tx on a connection that is not       *)
(* logged in fail with NoSuchAccount (HTTP 403) having performed no step:  *)
(* no request field parsed, no oracle client cloned, no message sent.      *)
C5_NotLoggedIn ==
    (Handler \in {"get_random_outs", "submit_raw_tx"} /\ ~last.pre.logged_in) =>
        /\ last.err = "kNoSuchAccount"
        /\ last.code = 403
        /\ last.ev = << >>
        /\ last.body = NoBody
        /\ Unchanged

C5_Witness ==
    /\ Parsed({"submit_raw_tx"}) /\ Root.hex /\ Root.tx
    /\ ~last.pre.logged_in
    /\ last.code = 403 /\ last.ev = << >>

(* C6 as stated: login with create_account = true never changes logged_in. *)
C6_Original ==
    (Parsed({"login"}) /\ Root.create_account) => ctx.logged_in = last.pre.logged_in

(* C6: login with create_account = true leaves logged_in as it was when it *)
(* queues a creation request (new_address = true) and when it fails; when  *)
(* it finds an existing visible account (new_address = false) it sets      *)
(* logged_in, as a login with create_account = false does.                 *)
C6_CreateDoesNotLogIn ==
    (Parsed({"login"}) /\ Root.create_account) =>
        /\ (last.err = NoError /\ last.body.new_address) =>
                /\ ctx.logged_in = last.pre.logged_in
                /\ PreStatus = "absent"
                /\ "creation_request" \in Range(last.ev)
        /\ last.err # NoError => ctx.logged_in = last.pre.logged_in
        /\ (last.err = NoError /\ ~last.body.new_address) =>
                /\ ctx.logged_in
                /\ PreStatus \in {"kActive", "kInactive"}

C6_Witness ==
    /\ Parsed({"login"}) /\ Root.create_account
    /\ last.err = NoError /\ last.body.new_address
    /\ ~last.pre.logged_in /\ ~ctx.logged_in

\* the result of login's account lookup, opening the snapshot included
LoginLookup ==
    IF last.env.fail \in {"start_read", "get_account"} THEN StepError(last.env.fail)
    ELSE IF PreStatus = "absent" THEN "kNoSuchAccount"
    ELSE NoError

WriterInvoked == "creation_request" \in Range(last.ev) \/ "import_request" \in Range(last.ev)

(* C7: once the view-key check has passed, login has exactly these         *)
(* outcomes.  The account exists and is not hidden: body new_address =     *)
(* false and no write.  It is hidden: NoSuchAccount.  The lookup fails     *)
(* with NoSuchAccount and create_account is true: creation_request is      *)
(* invoked, and on its success the body is new_address = true and the      *)
(* request is pending, on its failure its error is returned.  The lookup   *)
(* (opening the snapshot included) fails otherwise: that error is returned *)
(* and the writer is never invoked.                                        *)
C7_LoginOutcomes ==
    (Parsed({"login"}) /\ ~Mismatch) =>
        CASE LoginLookup = NoError /\ PreStatus \in {"kActive", "kInactive"} ->
                /\ last.err = NoError
                /\ last.body = [kind |-> "login", new_address |-> FALSE]
                /\ ~WriterInvoked /\ requests = last.pre.requests
          [] LoginLookup = NoError /\ PreStatus \notin {"kActive", "kInactive"} ->
                /\ last.err = "kNoSuchAccount"
                /\ ~WriterInvoked /\ requests = last.pre.requests
          [] LoginLookup = "kNoSuchAccount" /\ Root.create_account ->
                /\ "creation_request" \in Range(last.ev)
                /\ \/ /\ last.err = NoError
                      /\ last.body = [kind |-> "login", new_address |-> TRUE]
                      /\ requests = last.pre.requests (+) SetToBag({<<"kCreateAccount", Root.address>>})
                   \/ /\ last.err \in {"kDuplicateRequest", "kCreateQueueMax",
                                       StepError("commit")}
                      /\ last.body = NoBody
                      /\ requests = last.pre.requests
          [] OTHER ->
                /\ last.err = LoginLookup
                /\ ~WriterInvoked /\ requests = last.pre.requests

C7_Witness ==
    /\ Parsed({"login"}) /\ ~Mismatch /\ Root.create_account
    /\ PreStatus = "absent"
    /\ "creation_request" \in Range(last.ev)
    /\ last.body = [kind |-> "login", new_address |-> TRUE]
    /\ BagIn(<<"kCreateAccount", Root.address>>, requests)

ReadEndpoints ==
    {"get_address_info", "get_address_txs", "get_unspent_outs", "import_request"}

\* the request's address has a pending CreateAccount request and no account
PendingCreation ==
    /\ BagIn(<<"kCreateAccount", Root.address>>, last.pre.requests)
    /\ PreStatus = "absent"

(* C8 as stated, for requests with the correct view key: while an address  *)
(* has a pending creation request and no account, every address-bearing    *)
(* read endpoint returns HTTP 403 for it and logged_in is not set.         *)
C8_Original ==
    (Parsed(ReadEndpoints) /\ PendingCreation /\ ~Mismatch) =>
        /\ last.code = 403
        /\ ctx.logged_in = last.pre.logged_in

(* C8: while an address has a pending creation request and no account      *)
(* (after a login with create_account = true, until an approval), every    *)
(* request of an address-bearing read endpoint for it fails, with no body, *)
(* and leaves logged_in and the db as they were; with the correct view  *)
(* key the failure is NoSuchAccount, HTTP 403, unless a step up to the     *)
(* account lookup fails.                                                   *)
C8_PendingIsForbidden ==
    (Parsed(ReadEndpoints) /\ PendingCreation) =>
        /\ last.code # 200
        /\ last.body = NoBody
        /\ Unchanged
        /\ (~Mismatch /\ (last.env.fail \notin UpToLookup(Handler)
                          \/ (Handler = "import_request" /\ last.env.fail = "get_account"))) =>
                last.err = "kNoSuchAccount" /\ last.code = 403

C8_Witness ==
    /\ Parsed({"get_address_info"}) /\ PendingCreation /\ ~Mismatch
    /\ last.code = 403
    /\ ~ctx.logged_in

\* the errors equivalent to the generic timed-out condition
TimeoutErrors == {"kDaemonTimeout", "errc_timed_out"}

\* the errors equivalent to the generic no-lock-available condition
NoLockErrors == {"MDB_READERS_FULL", "errc_no_lock_available"}

(* C9 as stated: a handler error is answered 403 if it is NoSuchAccount,   *)
(* 503 if it is a timeout, and 500 otherwise.                              *)
C9_Original ==
    (last.ran /\ last.err # NoError) =>
        last.code = IF last.err = "kNoSuchAccount" THEN 403
                    ELSE IF last.err \in TimeoutErrors THEN 503
                    ELSE 500

(* C9: a handler error is answered 403 if it is NoSuchAccount, 503 if it   *)
(* is equivalent to the generic timed-out condition (DaemonTimeout) or to  *)
(* the generic no-lock-available condition (the reader table of the db  *)
(* is full), and 500 otherwise; a handler value is answered 200.           *)
C9_ErrorStatus ==
    last.ran =>
        last.code = IF last.err = NoError THEN 200
                    ELSE IF last.err = "kNoSuchAccount" THEN 403
                    ELSE IF last.err \in TimeoutErrors \cup NoLockErrors THEN 503
                    ELSE 500

C9_Witness ==
    /\ last.ran
    /\ last.err = "MDB_READERS_FULL"
    /\ last.code = 503

\* the query is for an entry of the endpoint table that has a handler
Routed ==
    /\ last # NoExchange
    /\ RunOf(last.query.uri) \notin {"none", "nullptr"}

(* C10 as stated: an unknown path yields 404, an entry without a handler   *)
(* 501, a non-POST method 405, a body larger than the endpoint's limit     *)
(* 400, a body that is not JSON 400, a body of exactly the limit passes    *)
(* the size check; in none of these cases is the handler invoked.          *)
C10_Original ==
    last # NoExchange =>
        /\ RunOf(last.query.uri) = "none" => last.code = 404 /\ ~last.ran
        /\ RunOf(last.query.uri) = "nullptr" => last.code = 501 /\ ~last.ran
        /\ (Routed /\ last.query.method # "POST") => last.code = 405 /\ ~last.ran
        /\ (Routed /\ last.query.body_size > MaxSizeOf(last.query.uri)) =>
                last.code = 400 /\ ~last.ran
        /\ (Routed /\ last.query.method = "POST"
                   /\ last.query.body_size <= MaxSizeOf(last.query.uri)
                   /\ ~last.query.json) => last.code = 400 /\ ~last.ran

(* C10: an unknown path yields 404 and an entry without a handler 501,     *)
(* whatever the method and body; for an entry with a handler, a body       *)
(* larger than the limit yields 400 whatever the method, a non-POST method *)
(* with a body within the limit yields 405, a POST within the limit whose  *)
(* body is not JSON yields 400, and in none of these cases is the handler  *)
(* invoked; a JSON POST of exactly the limit (2 KiB, 50 KiB for            *)
(* /submit_raw_tx) passes and the handler is invoked.                      *)
C10_Dispatch ==
    last # NoExchange =>
        LET q == last.query
            limit == IF q.uri = "/submit_raw_tx" THEN 50 * 1024 ELSE 2 * 1024 IN
        CASE RunOf(q.uri) = "none" -> last.code = 404 /\ ~last.ran /\ Unchanged
          [] RunOf(q.uri) = "nullptr" -> last.code = 501 /\ ~last.ran /\ Unchanged
          [] q.body_size > limit -> last.code = 400 /\ ~last.ran /\ Unchanged
          [] q.method # "POST" -> last.code = 405 /\ ~last.ran /\ Unchanged
          [] ~q.json -> last.code = 400 /\ ~last.ran /\ Unchanged
          [] OTHER -> last.ran

C10_Witness ==
    /\ last # NoExchange
    /\ last.query.uri = "/submit_raw_tx"
    /\ last.query.body_size = 50 * 1024
    /\ last.query.method = "POST" /\ last.query.json
    /\ last.ran

----------------------------------------------------------------------------
(* Properties of the read handlers over an account's outputs and spends.   *)
(* They compare the response with the account the db held before the    *)
(* request, whose records are read here directly and not through the       *)
(* walks of the handlers.                                                  *)

\* the account of the request's address before the request
Account == last.pre.accounts[Root.address]

\* handler `name` ran on well-formed fields and returned a value
Succeeded(name) == Parsed({name}) /\ last.err = NoError

\* handler `name` ran for the account that has records, with the right key
Asked(name) == Parsed({name}) /\ ~Mismatch /\ PreStatus = "kActive"

RECURSIVE Sum(_)
\* the exact sum of a sequence of numbers
Sum(numbers) ==
    IF numbers = << >> THEN 0 ELSE Head(numbers) + Sum(Tail(numbers))

\* the amounts of a sequence of outputs
AmountsOf(outputs) == [i \in 1..Len(outputs) |-> outputs[i].spend_meta.amount]

\* the output of the account with the given id (ids are unique in an account)
OutputWithId(id) ==
    CHOOSE output \in Range(Account.outputs) : output.spend_meta.id = id

\* invariant 1: every spend of the account has its source among the outputs
Invariant1 ==
    \A i \in 1..Len(Account.spends) :
        \E output \in Range(Account.outputs) :
            output.spend_meta.id = Account.spends[i].source

\* the amounts of the source outputs of the account's spends, in spend order
SourceAmounts ==
    [i \in 1..Len(Account.spends) |->
        OutputWithId(Account.spends[i].source).spend_meta.amount]

\* one descriptor per spend, in spend order: the spend's key image and mixin
\* with its source output's amount, transaction public key and index
SpendDescriptors ==
    [i \in 1..Len(Account.spends) |->
        LET spend == Account.spends[i]
            source == OutputWithId(spend.source) IN
        [amount |-> source.spend_meta.amount, key_image |-> spend.image,
         tx_pub_key |-> source.spend_meta.tx_public,
         out_index |-> source.spend_meta.index, mixin |-> spend.mixin_count]]

(* C11 as stated: for a db satisfying invariant 1, a successful         *)
(* get_address_info reports total_received equal to the sum of the amounts *)
(* of the account's outputs, total_sent equal to the sum of the amounts of *)
(* the source outputs of its spends, and one descriptor per spend.         *)
C11_Original ==
    (Succeeded("get_address_info") /\ Invariant1) =>
        /\ last.body.total_received = Sum(AmountsOf(Account.outputs))
        /\ last.body.total_sent = Sum(SourceAmounts)
        /\ last.body.spent_outputs = SpendDescriptors

(* C11: for a db satisfying invariant 1, get_address_info with the      *)
(* right key and no failing read succeeds; total_received is the sum of    *)
(* the amounts of the account's outputs and total_sent the sum of the      *)
(* amounts of the source outputs of its spends, both reduced modulo 2^64   *)
(* (the exact sums whenever they fit in 64 bits); spent_outputs has        *)
(* exactly one descriptor per spend, in spend order, pairing the spend's   *)
(* key image and mixin with its source's amount, tx public key and index.  *)
C11_Totals ==
    (Asked("get_address_info") /\ Invariant1) =>
        /\ last.err = NoError /\ last.code = 200
        /\ last.body.total_received = Sum(AmountsOf(Account.outputs)) % WordModulus
        /\ last.body.total_sent = Sum(SourceAmounts) % WordModulus
        /\ last.body.spent_outputs = SpendDescriptors
        /\ Sum(AmountsOf(Account.outputs)) < WordModulus =>
                last.body.total_received = Sum(AmountsOf(Account.outputs))
        /\ Sum(SourceAmounts) < WordModulus => last.body.total_sent = Sum(SourceAmounts)

C11_Witness ==
    /\ Succeeded("get_address_info") /\ Invariant1
    /\ Len(Account.outputs) = 3 /\ Len(Account.spends) = 3
    /\ last.body.total_received = Sum(AmountsOf(Account.outputs))
    /\ last.body.total_sent = 3
    /\ Len(last.body.spent_outputs) = 3

\* the unlock rule by unlock_time alone: wall-clock seconds above the maximum
\* block number, a block height otherwise
LockedByUnlockTime(output) ==
    IF output.unlock_time > CRYPTONOTE_MAX_BLOCK_NUMBER
    THEN output.unlock_time > last.env.now
    ELSE output.unlock_time > last.env.height

\* the coinbase rule: unlocked only when the chain is more than the window
\* above the output's block
LockedByCoinbaseRule(output) ==
    ~(last.env.height > output.link.height + coinbase_unlock_window)

(* C12 as stated: in get_address_info a coinbase output is counted in      *)
(* locked_funds unless chain_height > output.height + the coinbase unlock  *)
(* window; the other outputs are decided by unlock_time.                   *)
C12_Original ==
    Succeeded("get_address_info") =>
        last.body.locked_funds =
            Sum(AmountsOf(SelectSeq(Account.outputs,
                    LAMBDA output : IF output.coinbase
                                    THEN LockedByCoinbaseRule(output)
                                    ELSE LockedByUnlockTime(output)))) % WordModulus

(* C12: get_address_info has no rule of its own for coinbase outputs:      *)
(* every output, coinbase or not, is counted in locked_funds exactly when  *)
(* its unlock_time says so (above the maximum block number: locked while   *)
(* unlock_time > now; otherwise locked while unlock_time > chain height),  *)
(* so a coinbase output with unlock_time = height + window is unlocked     *)
(* from chain height = height + window on.                                 *)
C12_LockedFunds ==
    Succeeded("get_address_info") =>
        last.body.locked_funds =
            Sum(AmountsOf(SelectSeq(Account.outputs, LockedByUnlockTime))) % WordModulus

C12_Witness ==
    /\ Succeeded("get_address_info")
    /\ \E output \in Range(Account.outputs) :
            /\ output.coinbase
            /\ LockedByCoinbaseRule(output) /\ ~LockedByUnlockTime(output)
    /\ \E output \in Range(Account.outputs) : LockedByUnlockTime(output)
    /\ last.body.locked_funds = 1
    /\ last.body.total_received > 1

(* C13: is_locked compares an unlock_time strictly above the maximum block *)
(* number as wall-clock seconds (locked iff unlock_time > now) and an      *)
(* unlock_time equal to or below it as a block height (locked iff          *)
(* unlock_time > last block height), so an unlock_time equal to the chain  *)
(* height is not locked.                                                   *)
C13_IsLocked ==
    probe.op = "is_locked" =>
        /\ probe.unlock_time > CRYPTONOTE_MAX_BLOCK_NUMBER =>
                (probe.result <=> probe.unlock_time > probe.now)
        /\ probe.unlock_time <= CRYPTONOTE_MAX_BLOCK_NUMBER =>
                (probe.result <=> probe.unlock_time > probe.last)
        /\ probe.unlock_time = probe.last => ~probe.result

C13_Witness ==
    /\ probe.op = "is_locked"
    /\ probe.unlock_time = CRYPTONOTE_MAX_BLOCK_NUMBER
    /\ probe.last < probe.unlock_time /\ probe.now > probe.unlock_time
    /\ probe.result

(* C14 as stated: if some spend of the account has no output with the id   *)
(* of its source, get_address_info emits no body and the response to the   *)
(* request is HTTP 500.                                                    *)
C14_Original ==
    (Asked("get_address_info") /\ ~Invariant1) =>
        /\ last.body = NoBody
        /\ last.code = 500

\* the tx_hash values of the account's outputs and of its spends
OutputHashes == { Account.outputs[i].link.tx_hash : i \in 1..Len(Account.outputs) }

SpendHashes == { Account.spends[i].link.tx_hash : i \in 1..Len(Account.spends) }

\* the entries of the response for the transaction with the given hash
EntriesOf(hash) ==
    { i \in 1..Len(last.body.transactions) : last.body.transactions[i].hash = hash }

\* the amounts of the account's outputs that belong to the transaction
AmountsIn(hash) ==
    AmountsOf(SelectSeq(Account.outputs, LAMBDA output : output.link.tx_hash = hash))

\* the key images of the account's spends made by the transaction, in order
ImagesIn(hash) ==
    LET made == SelectSeq(Account.spends, LAMBDA spend : spend.link.tx_hash = hash) IN
    [i \in 1..Len(made) |-> made[i].image]

\* the total_received of the entries of the response
EntryTotals ==
    [i \in 1..Len(last.body.transactions) |-> last.body.transactions[i].total_received]

\* what get_address_info reports for the same snapshot and environment
InfoTotalReceived == address_info_walk(Account, last.env).body.total_received

\* the grouping of a successful get_address_txs response: one entry per
\* transaction, the outputs of a transaction collapsed into it and the
\* spends made by a transaction attached to it
C15_Grouping ==
    /\ \A hash \in OutputHashes \cup SpendHashes : Cardinality(EntriesOf(hash)) = 1
    /\ Len(last.body.transactions) = Cardinality(OutputHashes \cup SpendHashes)
    /\ \A i \in 1..Len(last.body.transactions) :
        LET entry == last.body.transactions[i] IN
        [k \in 1..Len(entry.spent_outputs) |-> entry.spent_outputs[k].key_image]
            = ImagesIn(entry.hash)

(* C15 as stated: in a successful get_address_txs response the outputs of  *)
(* a transaction are collapsed into one entry whose total_received is the  *)
(* sum of their amounts, spends are attached to the entry of their         *)
(* transaction, and the top-level total_received equals the sum of all the *)
(* account's output amounts, the sum of the entries' total_received and    *)
(* get_address_info's total_received.                                      *)
C15_Original ==
    Succeeded("get_address_txs") =>
        /\ C15_Grouping
        /\ \A i \in 1..Len(last.body.transactions) :
                last.body.transactions[i].total_received
                    = Sum(AmountsIn(last.body.transactions[i].hash))
        /\ last.body.total_received = Sum(AmountsOf(Account.outputs))
        /\ last.body.total_received = Sum(EntryTotals)
        /\ Invariant1 => last.body.total_received = InfoTotalReceived

(* C15: in a successful get_address_txs response there is one entry per    *)
(* transaction; the outputs of a transaction are collapsed into its entry, *)
(* whose total_received is the sum of their amounts modulo 2^64; a spend   *)
(* is attached to the tail entry when its tx_hash equals the tail's and    *)
(* otherwise starts a new entry; the top-level total_received is the sum   *)
(* of all the account's output amounts modulo 2^64, which is also the sum  *)
(* of the entries' total_received modulo 2^64 and get_address_info's       *)
(* total_received on the same snapshot (the exact sums when they fit in    *)
(* 64 bits).                                                               *)
C15_Collapsed ==
    Succeeded("get_address_txs") =>
        /\ C15_Grouping
        /\ \A i \in 1..Len(last.body.transactions) :
                last.body.transactions[i].total_received
                    = Sum(AmountsIn(last.body.transactions[i].hash)) % WordModulus
        /\ last.body.total_received = Sum(AmountsOf(Account.outputs)) % WordModulus
        /\ last.body.total_received = Sum(EntryTotals) % WordModulus
        /\ Invariant1 => last.body.total_received = InfoTotalReceived
        /\ Sum(AmountsOf(Account.outputs)) < WordModulus =>
                /\ last.body.total_received = Sum(AmountsOf(Account.outputs))
                /\ last.body.total_received = Sum(EntryTotals)

C15_Witness ==
    /\ Succeeded("get_address_txs")
    /\ Len(Account.outputs) = 3 /\ Len(last.body.transactions) = 3
    /\ last.body.transactions[1].total_received = 2
    /\ Len(last.body.transactions[2].spent_outputs) = 1
    /\ last.body.transactions[2].total_received = 1
    /\ last.body.transactions[3].total_received = 0
    /\ last.body.total_received = 3

\* the order of the links: by height, then by tx_hash
LinkBefore(left, right) ==
    \/ left.height < right.height
    \/ left.height = right.height /\ left.tx_hash < right.tx_hash

\* some record of the sequence has a lesser link than a record before it
OutOfOrder(records) ==
    \E i \in 1..Len(records) : \E j \in (i + 1)..Len(records) :
        LinkBefore(records[j].link, records[i].link)

(* C16: get_address_txs raises a fatal internal error (no body, no 200)    *)
(* whenever an output or a spend that is still unread has a link less than *)
(* the link of the most recently emitted entry, which happens whenever the *)
(* outputs or the spends are not in link order; the sort-order error is    *)
(* raised in no other case; and every successful response lists its        *)
(* transactions in strictly increasing (height, tx_hash) order, so no two  *)
(* entries have the same (height, tx_hash).                                *)
C16_Monotonic ==
    Asked("get_address_txs") =>
        /\ (OutOfOrder(Account.outputs) \/ OutOfOrder(Account.spends)) =>
                /\ last.err = LogicError
                /\ last.body = NoBody /\ last.code # 200
        /\ UnexpectedSortOrder \in Range(last.ev) =>
                /\ OutOfOrder(Account.outputs) \/ OutOfOrder(Account.spends)
                /\ last.err = LogicError
        /\ last.err = NoError =>
                \A i \in 1..Len(last.body.transactions) :
                    \A j \in (i + 1)..Len(last.body.transactions) :
                        LET earlier == last.body.transactions[i]
                            later == last.body.transactions[j] IN
                        LinkBefore([height |-> earlier.height, tx_hash |-> earlier.hash],
                                   [height |-> later.height, tx_hash |-> later.hash])

C16_Witness ==
    /\ Asked("get_address_txs")
    /\ OutOfOrder(Account.outputs)
    /\ UnexpectedSortOrder \in Range(last.ev)
    /\ last.err = LogicError

\* the filter of the request: threshold 0 when use_dust is true or
\* dust_threshold is absent, mixin 0 when absent
Threshold ==
    IF Root.use_dust = {TRUE} \/ Root.dust_threshold = {} THEN 0
    ELSE CHOOSE t \in Root.dust_threshold : TRUE

Mixin == IF Root.mixin = {} THEN 0 ELSE CHOOSE m \in Root.mixin : TRUE

\* the account's outputs that pass the filter, in output order
Survivors ==
    SelectSeq(Account.outputs,
              LAMBDA output : /\ output.spend_meta.amount >= Threshold
                              /\ output.spend_meta.mixin_count >= Mixin)

\* all the key images recorded for an output
ImagesOf(output) ==
    LET spent == SelectSeq(Account.spends,
                           LAMBDA spend : spend.source = output.spend_meta.id) IN
    [i \in 1..Len(spent) |-> spent[i].image]

\* the descriptors of the surviving outputs
SurvivorDescriptors ==
    [i \in 1..Len(Survivors) |->
        LET output == Survivors[i] IN
        [amount |-> output.spend_meta.amount, index |-> output.spend_meta.index,
         global_index |-> output.spend_meta.id.low, tx_id |-> output.spend_meta.id.low,
         tx_hash |-> output.link.tx_hash, tx_pub_key |-> output.spend_meta.tx_public,
         height |-> output.link.height, spend_key_images |-> ImagesOf(output)]]

OracleAndStoreSteps ==
    {"send", "receive", "start_read", "get_account", "get_outputs", "get_images",
     "end_read"}

(* C18: on every successful run of get_unspent_outs the fee-estimate        *)
(* request is sent before the read transaction is opened and the response  *)
(* is awaited only after the reader has been released: the order of events *)
(* is send, start_read, the database reads, reader release, receive; and   *)
(* on no run is the response awaited while the reader is open.             *)
C18_FeeAroundReads ==
    /\ Succeeded("get_unspent_outs") =>
            SelectSeq(last.ev, LAMBDA step : step \in OracleAndStoreSteps)
                = <<"send", "start_read", "get_account", "get_outputs">>
                    \o [i \in 1..Len(last.body.outputs) |-> "get_images"]
                    \o <<"end_read", "receive">>
    /\ Handler = "get_unspent_outs" =>
            \A i \in 1..Len(last.ev) :
                last.ev[i] = "receive" =>
                    \E j \in 1..(i - 1) : last.ev[j] = "end_read"

C18_Witness ==
    /\ Succeeded("get_unspent_outs")
    /\ Len(last.body.outputs) = 2
    /\ last.ev[Len(last.ev)] = "receive"
    /\ last.ev[Len(last.ev) - 1] = "end_read"

\* the steps that call upstream (the oracle, the exchange rates) or write
UpstreamAndWriterSteps ==
    {"send", "receive", "send2", "receive2", "get_rates",
     "creation_request", "import_request"}

\* a read snapshot is open when step i of the handler is performed
ReaderOpenAt(i) ==
    Cardinality({ j \in 1..(i - 1) : last.ev[j] = "start_read" })
        > Cardinality({ j \in 1..(i - 1) : last.ev[j] = "end_read" })

(* C19: no handler performs an oracle send or receive, an exchange-rate    *)
(* fetch or a writer operation (creation_request, import_request) while    *)
(* its read snapshot is open; the reader is finished or dropped first, and *)
(* on every path, success or error, a reader that was opened has been      *)
(* released when the handler returns.                                      *)
C19_NoSnapshotAcrossCalls ==
    last.ran =>
        /\ \A i \in 1..Len(last.ev) :
                last.ev[i] \in UpstreamAndWriterSteps => ~ReaderOpenAt(i)
        /\ \/ ~ReaderOpenAt(Len(last.ev) + 1)
           \/ last.ev[Len(last.ev)] = "start_read" /\ last.env.fail = "start_read"

C19_Witness ==
    /\ Parsed({"import_request"})
    /\ last.err = NoError
    /\ last.ev[Len(last.ev)] = "import_request"
    /\ last.ev[Len(last.ev) - 1] = "end_read"
    /\ "start_read" \in Range(last.ev)

(* C20: get_random_outs on a logged-in connection accepts count = 50 and   *)
(* |amounts| = 10, and fails with ExceededRestRequestLimit when count >= 51 *)
(* or |amounts| >= 11, in which case no oracle client is cloned and no     *)
(* oracle message is sent.                                                 *)
C20_RequestLimits ==
    (Parsed({"get_random_outs"}) /\ last.pre.logged_in) =>
        IF Root.count >= 51 \/ Root.amounts >= 11
        THEN /\ last.err = "kExceededRestRequestLimit"
             /\ last.body = NoBody
             /\ Range(last.ev) \cap {"clone", "send", "receive", "send2", "receive2"} = {}
        ELSE /\ last.err # "kExceededRestRequestLimit"
             /\ "clone" \in Range(last.ev)
             /\ (last.env.fail = "none" /\ last.env.join) =>
                    last.err = NoError /\ last.code = 200

C20_Witness ==
    /\ Parsed({"get_random_outs"}) /\ last.pre.logged_in
    /\ Root.count = 50 /\ Root.amounts = 10
    /\ last.err = NoError /\ last.code = 200
    /\ "send2" \in Range(last.ev)

\* the first response's outputs, flattened, each with its amount
RECURSIVE Offered(_)
Offered(random) ==
    IF random = << >> THEN << >>
    ELSE [i \in 1..Len(Head(random).outputs) |->
            [amount |-> Head(random).amount, output |-> Head(random).outputs[i]]]
         \o Offered(Tail(random))

\* the public keys of the second response
KeysAnswered == { last.env.keys[i].key : i \in 1..Len(last.env.keys) }

\* the four oracle calls of get_random_outs
OracleCalls == <<"send", "receive", "send2", "receive2">>

\* the oracle calls the handler made, in order
CallsMade == SelectSeq(last.ev, LAMBDA step : step \in Range(OracleCalls))

(* C21: get_random_outs performs its two oracle calls strictly in          *)
(* sequence (send, receive, send for output keys, receive); the second     *)
(* request names exactly the (amount, index) pairs of the first response,  *)
(* in order; the failure of any of the four steps returns that step's      *)
(* error and no later step runs; and when all four steps succeed the       *)
(* handler fails with BadDaemonResponse and no body iff some output key of *)
(* the first response is absent from the keys of the second response,      *)
(* otherwise every output is returned with the mask of its key.            *)
C21_TwoCalls ==
    (Parsed({"get_random_outs"}) /\ last.pre.logged_in
     /\ "clone" \in Range(last.ev) /\ last.env.fail # "clone") =>
        /\ \E k \in 0..4 : CallsMade = SubSeq(OracleCalls, 1, k)
        /\ \A k \in 1..4 :
            last.env.fail = OracleCalls[k] =>
                /\ CallsMade = SubSeq(OracleCalls, 1, k)
                /\ last.ev[Len(last.ev)] = OracleCalls[k]
                /\ last.err = StepError(OracleCalls[k])
                /\ last.body = NoBody
        /\ "send2" \in Range(last.ev) =>
                last.sent = [i \in 1..Len(Offered(last.env.random)) |->
                                [amount |-> Offered(last.env.random)[i].amount,
                                 index |-> Offered(last.env.random)[i].output.amount_index]]
        /\ last.env.fail \notin Range(OracleCalls) =>
            /\ CallsMade = OracleCalls
            /\ IF \E i \in 1..Len(Offered(last.env.random)) :
                    Offered(last.env.random)[i].output.key \notin KeysAnswered
               THEN last.err = "kBadDaemonResponse" /\ last.body = NoBody
               ELSE /\ last.err = NoError /\ last.code = 200
                    /\ Len(last.body.amount_outs) = Len(last.env.random)
                    /\ \A i \in 1..Len(last.env.random) :
                        /\ last.body.amount_outs[i].amount = last.env.random[i].amount
                        /\ last.body.amount_outs[i].outputs =
                            [j \in 1..Len(last.env.random[i].outputs) |->
                                LET src == last.env.random[i].outputs[j] IN
                                [err |-> NoError, global_index |-> src.amount_index,
                                 public_key |-> src.key, rct |-> KeyMask(src.key).mask]]

C21_Witness ==
    /\ Parsed({"get_random_outs"}) /\ last.pre.logged_in
    /\ last.env.fail = "none"
    /\ Len(last.env.random) = 2 /\ Len(last.sent) = 3
    /\ Len(last.env.keys) = 3 /\ last.env.keys[1].key > last.env.keys[3].key
    /\ last.err = "kBadDaemonResponse"
    /\ last.ev[Len(last.ev)] = "receive2"

\* submit_raw_tx after it relayed: the oracle's answer decides the outcome
C22_AfterRelay ==
    /\ last.env.fail \in {"send", "receive"} =>
            /\ last.err = StepError(last.env.fail) /\ last.body = NoBody
            /\ matches(last.err, errc("timed_out")) => last.code = 503
    /\ (last.env.fail \notin {"send", "receive"} /\ ~last.env.relayed) =>
            last.err = "kTxRelayFailed" /\ last.body = NoBody
    /\ (last.env.fail \notin {"send", "receive"} /\ last.env.relayed) =>
            /\ last.err = NoError /\ last.code = 200
            /\ last.body = [kind |-> "submit", status |-> "OK"]
            /\ SelectSeq(last.ev, LAMBDA step : step \in {"send", "receive"})
                    = <<"send", "receive">>

(* C22 as stated: submit_raw_tx relays only if the connection is logged    *)
(* in, the tx field hex-decodes (else InvalidHex) and the blob validates   *)
(* (else BadClientTx); after relaying it returns OK only if the oracle     *)
(* answered in time with relayed, TxRelayFailed if the oracle reports      *)
(* non-relayed, and the oracle's error otherwise.                          *)
C22_Original ==
    /\ (Handler = "submit_raw_tx" /\ "send" \in Range(last.ev)) =>
            /\ last.pre.logged_in /\ Root.fmt = NoError /\ Root.hex /\ Root.tx
            /\ C22_AfterRelay
    /\ (Parsed({"submit_raw_tx"}) /\ last.pre.logged_in) =>
            /\ ~Root.hex => last.err = "kInvalidHex"
            /\ (Root.hex /\ ~Root.tx) => last.err = "kBadClientTx"
    /\ Succeeded("submit_raw_tx") => "send" \in Range(last.ev)

(* C22: submit_raw_tx relays a transaction only if the connection is       *)
(* logged in, the oracle client was cloned, the tx field hex-decodes and   *)
(* the blob validates; on a logged-in connection a failed clone returns    *)
(* the clone's error before the request is looked at, and otherwise a tx   *)
(* that does not hex-decode returns InvalidHex and a blob that does not    *)
(* validate returns BadClientTx; after relaying, the handler returns       *)
(* {status: "OK"} only if the oracle answered in time with relayed,        *)
(* TxRelayFailed if the oracle reports non-relayed, and the oracle's error *)
(* (a timeout gives 503) otherwise.                                        *)
C22_SubmitRawTx ==
    /\ (Handler = "submit_raw_tx" /\ "send" \in Range(last.ev)) =>
            /\ last.pre.logged_in /\ Root.fmt = NoError /\ Root.hex /\ Root.tx
            /\ last.env.fail # "clone" /\ "clone" \in Range(last.ev)
            /\ C22_AfterRelay
    /\ (Handler = "submit_raw_tx" /\ last.pre.logged_in /\ last.env.fail = "clone") =>
            /\ last.err = StepError("clone") /\ last.body = NoBody
            /\ last.ev = <<"clone">>
    /\ (Parsed({"submit_raw_tx"}) /\ last.pre.logged_in /\ last.env.fail # "clone") =>
            /\ ~Root.hex => last.err = "kInvalidHex"
            /\ (Root.hex /\ ~Root.tx) => last.err = "kBadClientTx"
            /\ (Root.hex /\ Root.tx) => "send" \in Range(last.ev)
    /\ Succeeded("submit_raw_tx") => "send" \in Range(last.ev)

C22_Witness ==
    /\ Parsed({"submit_raw_tx"}) /\ last.pre.logged_in
    /\ Root.hex /\ Root.tx /\ ~last.env.relayed
    /\ last.err = "kTxRelayFailed"
    /\ last.ev[Len(last.ev)] = "receive"

\* import_request found the account of the request: the key matches, the
\* account is not hidden and the snapshot and the lookup did not fail
ImportAuthenticated ==
    /\ Parsed({"import_request"}) /\ ~Mismatch
    /\ PreStatus \in {"kActive", "kInactive"}
    /\ last.env.fail \notin {"start_read", "get_account"}

ImportPending == BagIn(<<"kImportScan", Root.address>>, last.pre.requests)

ImportBody(new_request, fulfilled) ==
    /\ last.err = NoError /\ last.code = 200
    /\ last.body.new_request = new_request
    /\ last.body.request_fulfilled = fulfilled

(* C23 as stated: import_request for an authenticated, non-hidden account  *)
(* reports fulfilled and writes nothing if start_height = 0; otherwise     *)
(* reports neither new nor fulfilled and writes nothing if an ImportScan   *)
(* request is pending; otherwise queues one ImportScan request with start  *)
(* height 0 and reports new_request; never both flags.                     *)
C23_Original ==
    ImportAuthenticated =>
        IF Account.start_height = 0
            THEN ImportBody(FALSE, TRUE) /\ requests = last.pre.requests
        ELSE IF ImportPending
            THEN ImportBody(FALSE, FALSE) /\ requests = last.pre.requests
        ELSE /\ ImportBody(TRUE, FALSE)
             /\ requests = last.pre.requests (+) SetToBag({<<"kImportScan", Root.address>>})
             /\ last.sent = <<[address |-> Root.address, start_height |-> 0]>>

(* C23: import_request for an authenticated, non-hidden account: if        *)
(* start_height = 0 it reports request_fulfilled = true, new_request =     *)
(* false and writes nothing; otherwise it looks up a pending ImportScan    *)
(* request: if the lookup fails with an error other than not-found that    *)
(* error is returned and nothing is written; if a request is pending it    *)
(* reports both flags false and writes nothing; otherwise it calls the     *)
(* writer once for an ImportScan with start height 0 and, if the writer    *)
(* succeeds, one request is queued and new_request = true,                 *)
(* request_fulfilled = false is reported, while a writer error is returned *)
(* with no body and nothing queued.  The two flags are never both true.    *)
C23_ImportRequest ==
    /\ ImportAuthenticated =>
        IF Account.start_height = 0
            THEN /\ ImportBody(FALSE, TRUE) /\ requests = last.pre.requests
                 /\ Range(last.ev) \cap {"get_request", "import_request"} = {}
        ELSE IF last.env.fail = "get_request"
            THEN /\ last.err = StepError("get_request") /\ last.body = NoBody
                 /\ requests = last.pre.requests
                 /\ "import_request" \notin Range(last.ev)
        ELSE IF ImportPending
            THEN /\ ImportBody(FALSE, FALSE) /\ requests = last.pre.requests
                 /\ "import_request" \notin Range(last.ev)
        ELSE /\ Cardinality({ i \in 1..Len(last.ev) : last.ev[i] = "import_request" }) = 1
             /\ last.sent = <<[address |-> Root.address, start_height |-> 0]>>
             /\ IF last.env.fail # "commit" /\ BagCardinality(last.pre.requests) < MaxPending
                THEN /\ ImportBody(TRUE, FALSE)
                     /\ requests = last.pre.requests (+) SetToBag({<<"kImportScan", Root.address>>})
                ELSE /\ last.err # NoError /\ last.body = NoBody
                     /\ requests = last.pre.requests
    /\ Succeeded("import_request") =>
            ~(last.body.new_request /\ last.body.request_fulfilled)

C23_Witness ==
    /\ ImportAuthenticated
    /\ Account.start_height # 0 /\ ~ImportPending
    /\ ImportBody(TRUE, FALSE)
    /\ BagIn(<<"kImportScan", Root.address>>, requests)

\* a login with create_account = true and the right key for an address that
\* has a pending CreateAccount request and no account yet
SecondCreation ==
    /\ Parsed({"login"}) /\ Root.create_account /\ ~Mismatch
    /\ BagIn(<<"kCreateAccount", Root.address>>, last.pre.requests)
    /\ Root.address \notin DOMAIN last.pre.accounts

\* the exchange left the db as it was
StoreUntouched == requests = last.pre.requests /\ accounts = last.pre.accounts

\* no two pending requests have the same kind and address
OnePerKindAndAddress ==
    \A request \in BagToSet(requests) : CopiesIn(request, requests) = 1

BesideWriter == last.ran /\ "stores" \in DOMAIN last

\* what the client sees of an exchange
Seen(resp) == <<resp.code, resp.err, resp.body>>

\* what the handler would answer from the given db, read in one piece
AnswerFrom(db) ==
    Seen(handle_http_request(last.query, db, last.pre.requests,
                             last.pre.logged_in, last.env))

\* every spend of the db has its source among the outputs
Invariant1Of(db) ==
    \A a \in DOMAIN db : \A i \in 1..Len(db[a].spends) :
        \E j \in 1..Len(db[a].outputs) :
            db[a].outputs[j].spend_meta.id = db[a].spends[i].source

\* the response is the one the store gives when read in one piece
IsolatedAt(db) == Seen(last) = AnswerFrom(db)

(* C25: every value a get_address_info, get_address_txs or                 *)
(* get_unspent_outs response is built from is read from one snapshot, so   *)
(* a writer commit that interleaves with the handler is entirely visible   *)
(* or entirely invisible in the response, and an output committed together *)
(* with its spend never causes the missing-source fatal error.             *)
C25_Original ==
    BesideWriter =>
        /\ \E db \in last.stores : IsolatedAt(db)
        /\ (\A db \in last.stores : Invariant1Of(db)) =>
                NoReceiveForSpend \notin Range(last.ev)

\* the object holds a live T exactly when it reports a value
HoldsValue(object) ==
    /\ has_value(object) # has_error(object)
    /\ object.type = "T" => (has_value(object) <=> object.storage_ # {})
    /\ object.type = "void" => object.storage_ = {}

(* C26: for every expect<T> and expect<void> object, after construction,   *)
(* copy, move or assignment exactly one of has_value() and has_error()     *)
(* holds (and a T is alive in it exactly when has_value()); constructing   *)
(* from an error code whose value is 0 stores InvalidErrorCode, never a    *)
(* success; equal(error_code) and matches(condition) are false whenever    *)
(* the object holds a value.                                               *)
C26_Expect ==
    probe.op \in {"construct", "copy", "assign", "compare"} =>
        /\ HoldsValue(probe.this) /\ HoldsValue(probe.src)
        /\ (probe.op = "construct" /\ probe.arg[1] = "code"
                /\ probe.arg[2] \in {NoError, "lws_0"}) =>
                    /\ probe.this.code_ = kInvalidErrorCode
                    /\ has_error(probe.this)
        /\ (probe.op = "compare" /\ has_value(probe.this)) =>
                probe.result = <<FALSE, FALSE>>

C26_Witness ==
    /\ probe.op = "compare"
    /\ probe.this.type = "T" /\ probe.this.storage_ = {2}
    /\ probe.src.storage_ = {1}
    /\ probe.arg = <<NoError, errc("timed_out")>>
    /\ probe.result = <<FALSE, FALSE>>

\* the generic condition each kind of lws error is equivalent to, if any
GenericConditionOf(kind) ==
    CASE kind = "kDaemonTimeout" -> {errc("timed_out")}
      [] kind \in {"kSignalAbortProcess", "kSignalAbortScan", "kSignalUnknown"}
            -> {errc("interrupted")}
      [] kind \in {"kBadAddress", "kBadViewKey"} -> {errc("bad_address")}
      [] kind = "kExceededBlockchainBuffer" -> {errc("no_buffer_space")}
      [] kind = "kSystemClockInvalidRange" -> {errc("result_out_of_range")}
      [] OTHER -> {}

(* C27: an error of the lws category matches a generic condition exactly   *)
(* as follows: DaemonTimeout matches timed-out; SignalAbortProcess,        *)
(* SignalAbortScan and SignalUnknown match interrupted; BadAddress and     *)
(* BadViewKey match bad-address; ExceededBlockchainBuffer matches          *)
(* no-buffer-space; SystemClockInvalidRange matches result-out-of-range;   *)
(* every other kind matches no generic condition.                          *)
C27_Equivalence ==
    (probe.op = "compare" /\ probe.this.code_ \in LwsErrors) =>
        (probe.result[2] <=> probe.arg[2] \in GenericConditionOf(probe.this.code_))

C27_Witness ==
    /\ probe.op = "compare"
    /\ probe.this.code_ = "kSignalUnknown"
    /\ probe.arg[2] = errc("interrupted")
    /\ probe.result[2] = TRUE

\* the answer to the same request on the same store when the rate fetch has
\* the other outcome
OtherRates ==
    handle_http_request(last.query, last.pre.accounts, last.pre.requests,
                        last.pre.logged_in, [last.env EXCEPT !.rates = ~@])

\* a body without its rates field
WithoutRates(body) == [field \in DOMAIN body \ {"rates"} |-> body[field]]

\* both outcomes of the rate fetch give a 200 body, the same but for rates
SameButRates ==
    /\ last.code = 200 /\ last.err = NoError
    /\ OtherRates.code = 200 /\ OtherRates.err = NoError
    /\ WithoutRates(last.body) = WithoutRates(OtherRates.body)
    /\ last.body.rates = last.env.rates
    /\ OtherRates.body.rates = ~last.env.rates

SubOperations ==
    {"clone", "start_read", "get_account", "get_outputs", "get_spends",
     "get_last_block", "get_images", "get_request", "get_rates", "send", "receive",
     "send2", "receive2", "creation_request", "import_request"}

\* the i-th step of the handler returned an error
StepFailed(i) ==
    \/ last.ev[i] = last.env.fail
    \/ last.ev[i] = "parse" /\ Root.fmt # NoError
    \/ last.ev[i] = "key_check" /\ Mismatch
    \/ last.ev[i] = "get_account" /\ Root.address \notin DOMAIN last.pre.accounts
    \/ last.ev[i] = "get_request"
            /\ ~BagIn(<<"kImportScan", Root.address>>, last.pre.requests)
    \/ last.ev[i] = "get_rates" /\ ~last.env.rates
    \/ last.ev[i] = "creation_request"
            /\ creation_request(last.pre.requests, last.pre.accounts, Root.address,
                                last.env).err # NoError
    \/ last.ev[i] = "import_request"
            /\ storage_import_request(last.pre.requests, last.pre.accounts,
                                      Root.address, last.env).err # NoError

\* the handler returned the error and ran no sub-operation after step i
ShortCircuitAt(i) ==
    /\ last.err # NoError
    /\ \A j \in (i + 1)..Len(last.ev) : last.ev[j] \notin SubOperations

\* the errors a handler takes for an answer: login with create_account finds
\* no account, import_request finds no pending request, the rate fetch of
\* get_address_info fails
Tolerated(i) ==
    \/ /\ Handler = "login" /\ last.ev[i] = "get_account"
       /\ last.env.fail # "get_account" /\ Root.create_account
    \/ /\ Handler = "import_request" /\ last.ev[i] = "get_request"
       /\ last.env.fail # "get_request"
    \/ last.ev[i] = "get_rates"

\* status 200 and a body exactly when the handler returned a value; no body
\* on a handler error
BodyIffValue ==
    /\ (last.code = 200 /\ last.body # NoBody) <=> (last.ran /\ last.err = NoError)
    /\ (last.ran /\ last.err # NoError) => last.body = NoBody

(* C29 as stated: every handler short-circuits on its first failing        *)
(* sub-operation and no later step of that handler runs; the response has  *)
(* status 200 and a body if and only if the handler returned a value, and  *)
(* on a handler error the body is not assigned.                            *)
C29_Original ==
    last # NoExchange =>
        /\ last.ran => \A i \in 1..Len(last.ev) : StepFailed(i) => ShortCircuitAt(i)
        /\ BodyIffValue

(* C29: a handler returns at the first failing sub-operation and runs no   *)
(* later database read, oracle message or write, except for three errors   *)
(* it takes for an answer: login with create_account=true goes on to queue *)
(* the creation after get_account reported NoSuchAccount, import_request   *)
(* goes on to queue the import after get_request reported MDB_NOTFOUND,    *)
(* and get_address_info produces its body after a failed rate fetch.  The  *)
(* response has status 200 and a body if and only if the handler returned  *)
(* a value, and on a handler error the body is not assigned.               *)
C29_ShortCircuit ==
    last # NoExchange =>
        /\ last.ran => \A i \in 1..Len(last.ev) :
                (StepFailed(i) /\ ~Tolerated(i)) => ShortCircuitAt(i)
        /\ BodyIffValue

C29_Witness ==
    /\ Handler = "import_request" /\ last.env.fail = "get_request"
    /\ "get_request" \in Range(last.ev) /\ "import_request" \notin Range(last.ev)
    /\ last.err = "MDB_CORRUPTED" /\ last.code = 500 /\ last.body = NoBody
    /\ requests = last.pre.requests

\* the first record of the next distinct key after record `from`, 0 if none
NextKeyAfter(from) ==
    IF \E i \in 1..Len(Table) : Table[i].k > Table[from].k
    THEN CHOOSE i \in 1..Len(Table) :
            /\ Table[i].k > Table[from].k
            /\ \A j \in 1..Len(Table) : Table[j].k > Table[from].k => i <= j
    ELSE 0

(* C30: advancing a key_iterator (pre- or post-increment) moves the single *)
(* underlying cursor to the first value of the next distinct key; a value  *)
(* range made afterwards from a prior copy of the key_iterator holds the   *)
(* values at that cursor, not those of the key the copy still reports, and *)
(* a value-iterator made before the advance continues with values of the   *)
(* cursor's key, not of the key it was made at: copies hold no position of *)
(* their own.                                                              *)
C30_CursorAliasing ==
    /\ probe.op = "advance" =>
            /\ probe.cursor = NextKeyAfter(probe.arg)
            /\ \A j \in 1..Len(probe.keys) :
                    probe.keys[j].prior =>
                        (probe.cursor = 0 \/ probe.keys[j].key # Table[probe.cursor].k)
    /\ probe.op = "make_value" =>
            LET made == probe.values[Len(probe.values)] IN
            /\ made.values = probe.cursor
            /\ probe.keys[probe.arg].prior => Table[made.values].k # made.made_for
    /\ probe.op = "next_value" =>
            LET it == probe.values[probe.arg] IN
            (it.prior /\ it.values # 0) => Table[it.values].k # it.made_at

C30_Witness ==
    /\ probe.op = "make_value"
    /\ probe.keys[probe.arg] = [key |-> 1, prior |-> TRUE]
    /\ probe.values[Len(probe.values)].values = 4
    /\ Len(probe.values) = 2
    /\ probe.values[1].prior /\ probe.values[1].made_at = 1
    /\ probe.values[1].values = 4

\* the amounts of the source outputs of the account's spends made in the
\* transaction of the link (0 for the spends of other transactions)
SentIn(link) ==
    [i \in 1..Len(Account.spends) |->
        IF Account.spends[i].link = link THEN SourceAmounts[i] ELSE 0]

(* C31 as stated: in get_address_txs, for every store satisfying invariant *)
(* 1 with link-ordered records, including accounts that received two or    *)
(* more outputs in the same transaction, each spend is resolved to its own *)
(* source output: the handler does not raise the 'no receive for spend'    *)
(* fatal error, each spend descriptor carries the amount of that spend's   *)
(* source output alone, and each entry's total_sent equals the sum (in     *)
(* 64-bit arithmetic) of its spends' source-output amounts.                *)
C31_Original ==
    (/\ Asked("get_address_txs") /\ Invariant1
     /\ ~OutOfOrder(Account.outputs) /\ ~OutOfOrder(Account.spends)
     /\ last.env.fail = "none") =>
        /\ NoReceiveForSpend \notin Range(last.ev)
        /\ last.err = NoError
        /\ \A i \in 1..Len(Account.spends) :
                \A e \in EntriesOf(Account.spends[i].link.tx_hash) :
                    LET entry == last.body.transactions[e] IN
                    /\ \E sent \in Range(entry.spent_outputs) :
                            /\ sent.key_image = Account.spends[i].image
                            /\ sent.amount = SourceAmounts[i]
                    /\ entry.total_sent = Sum(SentIn(Account.spends[i].link)) % WordModulus

\* the handlers that authenticate: they look the account up with the view key
Authenticating ==
    {"login", "get_address_info", "get_address_txs", "get_unspent_outs", "import_request"}

\* one step of the connection as far as logged_in is concerned
LoggedInStep ==
    /\ ctx.logged_in => ctx'.logged_in
    /\ (~ctx.logged_in /\ ctx'.logged_in) =>
            /\ Parsed(Authenticating)'
            /\ ~Mismatch'
            /\ PreStatus' \in {"kActive", "kInactive"}
            /\ "key_check" \in Range(last'.ev)
    /\ (ctx.logged_in /\ last'.ran
            /\ Handler' \in {"get_random_outs", "submit_raw_tx"}) =>
            /\ last'.ev # << >>
            /\ last'.query.root.fmt = NoError => last'.err # "kNoSuchAccount"

(* C32: the logged_in flag of a connection context starts false, is set    *)
(* true only by a handler that has verified the view key against a stored  *)
(* non-hidden account in that same request, and is never reset to false:   *)
(* once true it stays true for all later requests on the connection, so    *)
(* get_random_outs and submit_raw_tx stay permitted (they pass the         *)
(* logged_in test and go on to parse the request) even after the           *)
(* authenticating account is later set to Hidden, and regardless of which  *)
(* address authenticated.                                                  *)
C32_LoggedIn == ~ctx.logged_in /\ [][LoggedInStep]_vars

C32_Witness ==
    /\ Parsed({"get_random_outs"}) /\ last.pre.logged_in /\ last.err = NoError
    /\ \A a \in DOMAIN accounts : accounts[a].status = "kHidden"
    /\ DOMAIN accounts # {}

\* the handler found a visible account for an address whose view key it had
\* verified: the lookup itself did not fail
Authenticated ==
    /\ Parsed(Authenticating) /\ ~Mismatch
    /\ PreStatus \in {"kActive", "kInactive"}
    /\ "get_account" \in Range(last.ev) /\ last.env.fail # "get_account"

\* get_unspent_outs found less than the requested amount
InsufficientFunds ==
    /\ Handler = "get_unspent_outs" /\ Authenticated
    /\ last.env.fail # "get_outputs"
    /\ Sum(AmountsOf(Survivors)) % WordModulus < Root.amount

(* C33: logged_in is set at the moment of successful authentication and is *)
(* not rolled back when the same handler later fails: a get_unspent_outs   *)
(* request that authenticates but is answered with NoSuchAccount (403)     *)
(* because the surviving outputs sum to less than the requested amount, or *)
(* any handler that authenticates and then fails on a database read or an  *)
(* oracle timeout, leaves logged_in true.                                  *)
C33_NoRollback ==
    /\ Authenticated => ctx.logged_in
    /\ InsufficientFunds =>
            /\ last.err = "kNoSuchAccount" /\ last.code = 403
            /\ ctx.logged_in
    /\ (Authenticated /\ last.env.fail \in Range(last.ev)) =>
            /\ last.err = StepError(last.env.fail)
            /\ ctx.logged_in

C33_Witness ==
    /\ InsufficientFunds /\ ~last.pre.logged_in
    /\ last.err = "kNoSuchAccount" /\ last.code = 403
    /\ ctx.logged_in

\* how many times the step occurs among the steps of the exchange
Count(step) == Cardinality({ i \in 1..Len(last.ev) : last.ev[i] = step })

\* the errors of a get_unspent_outs request that fails after its send: a
\* JSON field error, BadViewKey, NoSuchAccount or a database error
FailsAfterSend ==
    /\ Handler = "get_unspent_outs"
    /\ last.env.fail \notin {"clone", "send"}
    /\ \/ Root.fmt # NoError /\ last.err = Root.fmt
       \/ last.err \in {"kBadViewKey", "kNoSuchAccount",
                         "MDB_READERS_FULL", "MDB_CORRUPTED"}

(* C34: get_unspent_outs sends its fee-estimate message to the oracle      *)
(* before it parses the request fields or checks the view key: a request   *)
(* that then fails with a JSON field error, BadViewKey, NoSuchAccount      *)
(* (absent, hidden or insufficient funds) or a database error has sent     *)
(* exactly one oracle message and never receives its reply, and sending    *)
(* happens regardless of logged_in.                                        *)
C34_SendFirst ==
    /\ (Handler = "get_unspent_outs" /\ last.env.fail # "clone") =>
            /\ Len(last.ev) >= 2 /\ last.ev[1] = "clone" /\ last.ev[2] = "send"
            /\ \A i \in 1..Len(last.ev) :
                    last.ev[i] \in {"parse", "key_check"} => i > 2
    /\ FailsAfterSend =>
            /\ Count("send") = 1
            /\ Count("receive") = 0
            /\ last.body = NoBody

C34_Witness ==
    /\ FailsAfterSend /\ last.err = "kBadViewKey"
    /\ ~last.pre.logged_in /\ ~ctx.logged_in
    /\ Count("send") = 1 /\ Count("receive") = 0

\* the dispatch checks in the order of the code, each with the status it
\* answers: does the check fail for the request, taken on its own
DispatchChecks ==
    LET q == last.query IN
    << [fails |-> RunOf(q.uri) = "none", code |-> 404],
       [fails |-> RunOf(q.uri) = "nullptr", code |-> 501],
       [fails |-> q.body_size > MaxSizeOf(q.uri), code |-> 400],
       [fails |-> q.method # "POST", code |-> 405],
       [fails |-> ~q.json, code |-> 400] >>

FailingChecks ==
    UNION { { i \in 1..Len(checks) : checks[i].fails } : checks \in {DispatchChecks} }

\* the same request with a body that is JSON, or is not
WithJson(json) == [last.query EXCEPT !.json = json]

(* C35: the HTTP dispatch checks are applied in the fixed order path       *)
(* lookup, null handler, body size, method, JSON parse, and the first      *)
(* failing check decides the status: a non-POST request to                 *)
(* /get_txt_records yields 501 (not 405), a non-POST request whose body    *)
(* exceeds the endpoint limit yields 400 (not 405), and an oversized body  *)
(* is rejected without being parsed: the answer is the same whether or not *)
(* the body is JSON.                                                       *)
C35_CheckOrder ==
    last # NoExchange =>
        /\ \A failing \in {FailingChecks} :
                /\ failing # {} =>
                        /\ \E first \in failing :
                                /\ \A i \in failing : first <= i
                                /\ last.code = DispatchChecks[first].code
                        /\ ~last.ran /\ last.ev = << >>
                /\ failing = {} => last.ran
        /\ (last.query.uri = "/get_txt_records" /\ last.query.method # "POST") =>
                last.code = 501
        /\ (Routed /\ last.query.method # "POST"
                /\ last.query.body_size > MaxSizeOf(last.query.uri)) =>
                /\ last.code = 400
                /\ \A json \in BOOLEAN :
                    Seen(handle_http_request(WithJson(json), last.pre.accounts,
                                             last.pre.requests, last.pre.logged_in,
                                             last.env)) = Seen(last)

C35_Witness ==
    /\ last # NoExchange
    /\ last.query.uri = "/get_txt_records" /\ last.query.method = "GET"
    /\ last.query.body_size > 0 /\ ~last.query.json
    /\ last.code = 501 /\ FailingChecks = {2, 3, 4, 5}

\* the two workers are done with identical calls that were in flight together
RacedCalls ==
    /\ probe.op = "race"
    /\ \A w \in DOMAIN probe.calls : probe.calls[w].pc = "done" /\ probe.calls[w].beside
    /\ probe.calls[1].query = probe.calls[2].query

RaceAddress == probe.calls[1].query.root.address

\* the kind of request the raced calls queue
RaceKind ==
    IF probe.calls[1].query.uri = "/login" THEN "kCreateAccount" ELSE "kImportScan"

\* the call's read snapshot held no pending request of the raced kind
PassedCheck(w) == ~BagIn(<<RaceKind, RaceAddress>>, probe.calls[w].snapshot)

\* the raced calls are logins for a never-seen address, or import_requests
\* for a visible account that is not yet fulfilled and had no pending
\* ImportScan when the first of them opened its snapshot
RaceEligible ==
    /\ RacedCalls
    /\ \E w \in DOMAIN probe.calls : PassedCheck(w)
    /\ IF RaceKind = "kCreateAccount"
       THEN RaceAddress \notin DOMAIN accounts
       ELSE /\ RaceAddress \in DOMAIN accounts
            /\ accounts[RaceAddress].status \in {"kActive", "kInactive"}
            /\ accounts[RaceAddress].start_height # 0

\* the call succeeded with new_address (login) or new_request (import_request)
QueuedNew(w) ==
    LET call == probe.calls[w] IN
    /\ call.err = NoError /\ call.code = 200
    /\ IF RaceKind = "kCreateAccount" THEN call.body.new_address
       ELSE call.body.new_request

Duplicate(w) ==
    /\ probe.calls[w].err = "kDuplicateRequest" /\ probe.calls[w].code = 500
    /\ probe.calls[w].body = NoBody

RaceUndisturbed ==
    /\ \A w \in DOMAIN probe.calls : probe.calls[w].fail = "none"
    /\ \E w \in DOMAIN probe.calls : BagCardinality(probe.calls[w].snapshot) < MaxPending

WalkOutputs == accounts[DataAddress].outputs

WalkSpends == accounts[DataAddress].spends

\* the loop has left: both cursors are at end, or a fatal error was raised
WalkEnded ==
    /\ probe.op = "walk"
    /\ \/ probe.thrown # ""
       \/ probe.o > Len(WalkOutputs) /\ probe.s > Len(WalkSpends)

\* one iteration of the loop: unless it raises a fatal error it advances
\* exactly one cursor, the output cursor when the spend cursor is at end or
\* next_output <= next_spend, otherwise the spend cursor
WalkAdvance ==
    probe.op = "walk" =>
        /\ probe'.iterations = probe.iterations + 1
        /\ probe'.thrown # "" => probe'.o = probe.o /\ probe'.s = probe.s
        /\ probe'.thrown = "" =>
            IF probe.s > Len(WalkSpends)
                \/ /\ probe.o <= Len(WalkOutputs)
                   /\ ~LinkBefore(WalkSpends[probe.s].link, WalkOutputs[probe.o].link)
            THEN probe'.o = probe.o + 1 /\ probe'.s = probe.s
            ELSE probe'.o = probe.o /\ probe'.s = probe.s + 1

\* the iterations run so far are bounded by the records consumed, and a loop
\* that ends without an error has consumed every output and every spend once
WalkBounded ==
    probe.op = "walk" =>
        /\ probe.o \in 1..(Len(WalkOutputs) + 1) /\ probe.s \in 1..(Len(WalkSpends) + 1)
        /\ probe.iterations =
                (probe.o - 1) + (probe.s - 1) + (IF probe.thrown = "" THEN 0 ELSE 1)
        /\ probe.iterations <= Len(WalkOutputs) + Len(WalkSpends)
        /\ (WalkEnded /\ probe.thrown = "") =>
            /\ probe.iterations = Len(WalkOutputs) + Len(WalkSpends)
            /\ probe.acc.received = Sum(AmountsOf(WalkOutputs)) % WordModulus
            /\ Sum([i \in 1..Len(probe.acc.txes) |-> Len(probe.acc.txes[i].spends)])
                    = Len(WalkSpends)
            /\ txs_walk(WalkOutputs, WalkSpends, 1, 1,
                        [txes |-> << >>, metas |-> << >>, received |-> 0])
                    = [thrown |-> "", txes |-> probe.acc.txes,
                       received |-> probe.acc.received]

(* C37: the get_address_txs merge loop terminates: every iteration that    *)
(* does not raise a fatal error advances exactly one of the two cursors    *)
(* (the output cursor when the spend cursor is at end or next_output <=    *)
(* next_spend, otherwise the spend cursor), so the loop runs at most       *)
(* |outputs| + |spends| iterations and on a successful run every output    *)
(* and every spend has been consumed exactly once.                         *)
C37_Terminates == [][WalkAdvance]_vars /\ []WalkBounded /\ <>WalkEnded

C37_Witness ==
    /\ WalkEnded /\ probe.thrown = ""
    /\ Len(WalkOutputs) = 3 /\ Len(WalkSpends) = 2
    /\ probe.iterations = 5
    /\ Len(probe.acc.txes) = 3

\* the request is for a stored account whose status is neither Active nor
\* Inactive, with the right view key
NotVisible ==
    /\ Parsed(AddressBearing) /\ ~Mismatch
    /\ PreStatus \notin {"kActive", "kInactive", "absent"}

\* the store before the request with the account's status set to Hidden
AsHidden == [last.pre.accounts EXCEPT ![Root.address].status = "kHidden"]

(* C38: status handling is fail-closed: is_hidden returns false only for   *)
(* Active and Inactive, so an account whose stored status is any other     *)
(* value (Hidden or an unknown or corrupt value) is treated as hidden by   *)
(* every handler, which answers as it does for a Hidden account, and       *)
(* yields NoSuchAccount (HTTP 403, no body, logged_in not set) once the    *)
(* handler has read the account.                                           *)
C38_FailClosed ==
    /\ \A status \in Statuses \cup {"unknown"} :
            is_hidden(status) <=> status \notin {"kActive", "kInactive"}
    /\ NotVisible =>
        /\ Seen(last) = Seen(handle_http_request(last.query, AsHidden, last.pre.requests,
                                                 last.pre.logged_in, last.env))
        /\ ("get_account" \in Range(last.ev) /\ last.env.fail # "get_account") =>
                /\ last.err = "kNoSuchAccount" /\ last.code = 403
                /\ last.body = NoBody
                /\ Unchanged

C38_Witness ==
    /\ NotVisible /\ PreStatus = "unknown"
    /\ Handler = "get_address_txs"
    /\ last.err = "kNoSuchAccount" /\ last.code = 403
    /\ ~ctx.logged_in

\* the store before the request without the account's spends (and so
\* without any recorded key image)
NeverSpent == [last.pre.accounts EXCEPT ![Root.address].spends = << >>]

\* what the handler answers when no key image is recorded
UnspentAnswer ==
    handle_http_request(last.query, NeverSpent, last.pre.requests,
                        last.pre.logged_in, last.env)

\* the descriptors without their key images
WithoutImages(outputs) ==
    [i \in 1..Len(outputs) |-> [outputs[i] EXCEPT !.spend_key_images = << >>]]

(* C39: get_unspent_outs does not filter on spend state: an output for     *)
(* which one or more key images are recorded is still returned (with those *)
(* key images in spend_key_images) and its amount is still counted in the  *)
(* response amount and in the comparison against the requested amount; the *)
(* set of returned outputs depends only on the amount and mixin_count      *)
(* thresholds.                                                             *)
C39_NoSpendFilter ==
    (Asked("get_unspent_outs") /\ last.env.fail = "none") =>
        /\ last.err = UnspentAnswer.err /\ last.code = UnspentAnswer.code
        /\ last.err = "kNoSuchAccount" <=>
                Sum(AmountsOf(Survivors)) % WordModulus < Root.amount
        /\ last.err = NoError =>
            /\ last.body.amount = UnspentAnswer.body.amount
            /\ WithoutImages(last.body.outputs) = UnspentAnswer.body.outputs
            /\ Len(last.body.outputs) = Len(Survivors)
            /\ \A i \in 1..Len(Survivors) :
                    /\ last.body.outputs[i].spend_key_images = ImagesOf(Survivors[i])
                    /\ last.body.outputs[i].amount = Survivors[i].spend_meta.amount

C39_Witness ==
    /\ Succeeded("get_unspent_outs")
    /\ Len(last.body.outputs) = 2
    /\ last.body.outputs[1].spend_key_images = <<11, 13>>
    /\ last.body.outputs[2].spend_key_images = <<12>>
    /\ last.body.amount = 2

\* the exact sums behind the totals of the exchange: over all outputs, over
\* the locked outputs, over the source outputs of the spends, and over the
\* outputs that pass the get_unspent_outs filter
ExactReceived == Sum(AmountsOf(Account.outputs))

ExactLocked == Sum(AmountsOf(SelectSeq(Account.outputs, LockedByUnlockTime)))

ExactSent == Sum(SourceAmounts)

ExactUnspent == Sum(AmountsOf(Survivors))

====
